---------------------------- MODULE Spec2Model ----------------------------
(***************************************************************************)
(* Dynamic form runtime and application status workflow of the            *)
(* pro-dvizhenie application backend (Django).                            *)
(*                                                                         *)
(* JSON values (answers, expressions) are records [k |-> kind, v |-> x]    *)
(* with kind in null / bool / num / str / list / dict; a Python exception *)
(* escaping a function is the value [k |-> "exc", v |-> <exception name>]. *)
(* A dict is its item list <<key, value>> in insertion order.              *)
(***************************************************************************)
EXTENDS Integers, Sequences, FiniteSets, TLC

\* ------------------------------------------------------------------------
\* JSON values and the Python operations the runtime applies to them
\* ------------------------------------------------------------------------
Null == [k |-> "null", v |-> 0]
B(b) == [k |-> "bool", v |-> b]
N(n) == [k |-> "num", v |-> n]
S(s) == [k |-> "str", v |-> s]
L(items) == [k |-> "list", v |-> items]
D(items) == [k |-> "dict", v |-> items]
Exc(name) == [k |-> "exc", v |-> name]

IsExc(x) == x.k = "exc"
IsNumeric(x) == x.k \in {"bool", "num"}
NumVal(x) == IF x.k = "bool" THEN (IF x.v THEN 1 ELSE 0) ELSE x.v

Range(seq) == {seq[i] : i \in 1..Len(seq)}
DictKeys(d) == {d.v[i][1] : i \in 1..Len(d.v)}
DictHas(d, key) == key \in DictKeys(d)
DictGet(d, key) == d.v[CHOOSE i \in 1..Len(d.v) : d.v[i][1] = key][2]
DictKeySeq(d) == [i \in 1..Len(d.v) |-> S(d.v[i][1])]

\* Characters of the string literals the model decomposes (prefix tests,
\* strptime); a string without an entry is never decomposed.
CharsOf ==
    ("" :> <<>>) @@
    ("$" :> <<"$">>) @@
    ("$age" :> <<"$", "a", "g", "e">>) @@
    ("$q_agree" :> <<"$", "q", "_", "a", "g", "r", "e", "e">>) @@
    ("q_agree" :> <<"q", "_", "a", "g", "r", "e", "e">>) @@
    ("$branch" :> <<"$", "b", "r", "a", "n", "c", "h">>) @@
    ("age" :> <<"a", "g", "e">>) @@
    ("branch" :> <<"b", "r", "a", "n", "c", "h">>) @@
    ("adult" :> <<"a", "d", "u", "l", "t">>) @@
    ("child" :> <<"c", "h", "i", "l", "d">>) @@
    ("self" :> <<"s", "e", "l", "f">>) @@
    ("parent" :> <<"p", "a", "r", "e", "n", "t">>) @@
    (" parent " :> <<" ", "p", "a", "r", "e", "n", "t", " ">>) @@
    ("2015-06-15" :> <<"2", "0", "1", "5", "-", "0", "6", "-", "1", "5">>) @@
    ("1990-12-01" :> <<"1", "9", "9", "0", "-", "1", "2", "-", "0", "1">>) @@
    ("2030-01-01" :> <<"2", "0", "3", "0", "-", "0", "1", "-", "0", "1">>) @@
    ("2015-6-15" :> <<"2", "0", "1", "5", "-", "6", "-", "1", "5">>) @@
    ("2026-03-01" :> <<"2", "0", "2", "6", "-", "0", "3", "-", "0", "1">>) @@
    ("15.06.2015" :> <<"1", "5", ".", "0", "6", ".", "2", "0", "1", "5">>) @@
    ("01.01.2030" :> <<"0", "1", ".", "0", "1", ".", "2", "0", "3", "0">>) @@
    ("a@b.ru" :> <<"a", "@", "b", ".", "r", "u">>) @@
    (" a@b.ru " :> <<" ", "a", "@", "b", ".", "r", "u", " ">>) @@
    ("a@b" :> <<"a", "@", "b">>) @@
    ("a b@c.ru" :> <<"a", " ", "b", "@", "c", ".", "r", "u">>) @@
    ("+79991234567" :> <<"+", "7", "9", "9", "9", "1", "2", "3", "4", "5", "6", "7">>) @@
    ("89991234567" :> <<"8", "9", "9", "9", "1", "2", "3", "4", "5", "6", "7">>) @@
    ("5" :> <<"5">>) @@
    (" 12 " :> <<" ", "1", "2", " ">>) @@
    ("12" :> <<"1", "2">>) @@
    ("abc" :> <<"a", "b", "c">>) @@
    ("yes" :> <<"y", "e", "s">>) @@
    ("off" :> <<"o", "f", "f">>) @@
    ("care" :> <<"c", "a", "r", "e">>) @@
    ("   " :> <<" ", " ", " ">>)

Chars(s) == CharsOf[s]
StrOf(chars) == CHOOSE s \in DOMAIN CharsOf : CharsOf[s] = chars

\* bool(x)
PyBool(x) ==
    CASE x.k = "null" -> FALSE
      [] x.k = "bool" -> x.v
      [] x.k = "num" -> x.v # 0
      [] x.k = "str" -> x.v # ""
      [] x.k \in {"list", "dict"} -> Len(x.v) > 0

\* a == b
RECURSIVE PyEq(_, _)
PyEq(a, b) ==
    CASE IsNumeric(a) /\ IsNumeric(b) -> NumVal(a) = NumVal(b)
      [] a.k = "null" /\ b.k = "null" -> TRUE
      [] a.k = "str" /\ b.k = "str" -> a.v = b.v
      [] a.k = "list" /\ b.k = "list" ->
            /\ Len(a.v) = Len(b.v)
            /\ \A i \in 1..Len(a.v) : PyEq(a.v[i], b.v[i])
      [] a.k = "dict" /\ b.k = "dict" ->
            /\ DictKeys(a) = DictKeys(b)
            /\ \A key \in DictKeys(a) : PyEq(DictGet(a, key), DictGet(b, key))
      [] OTHER -> FALSE

\* Position of a character in the collating order of the characters used.
CharOrder == <<" ", "$", "-", ".", "0", "1", "2", "3", "4", "5", "6", "7", "8", "9",
               "a", "b", "c", "d", "e", "f", "g", "h", "i", "l", "n", "p",
               "r", "s", "t", "u">>
CharRank(c) == CHOOSE i \in 1..Len(CharOrder) : CharOrder[i] = c

RECURSIVE SeqLess(_, _)
SeqLess(x, y) ==
    IF y = <<>> THEN FALSE
    ELSE IF x = <<>> THEN TRUE
    ELSE IF CharRank(Head(x)) # CharRank(Head(y))
         THEN CharRank(Head(x)) < CharRank(Head(y))
         ELSE SeqLess(Tail(x), Tail(y))

\* a < b : a JSON bool, or TypeError for operands Python cannot order
PyLt(a, b) ==
    CASE IsNumeric(a) /\ IsNumeric(b) -> B(NumVal(a) < NumVal(b))
      [] a.k = "str" /\ b.k = "str" -> B(SeqLess(Chars(a.v), Chars(b.v)))
      [] OTHER -> Exc("TypeError")

PyLe(a, b) ==
    CASE IsNumeric(a) /\ IsNumeric(b) -> B(NumVal(a) <= NumVal(b))
      [] a.k = "str" /\ b.k = "str" -> B(~SeqLess(Chars(b.v), Chars(a.v)))
      [] OTHER -> Exc("TypeError")

IsSubSeq(x, y) ==
    \E i \in 0..(Len(y) - Len(x)) : \A j \in 1..Len(x) : y[i + j] = x[j]

\* x in container
PyIn(x, container) ==
    CASE container.k = "list" -> B(\E i \in 1..Len(container.v) : PyEq(x, container.v[i]))
      [] container.k = "str" ->
            IF x.k = "str" THEN B(IsSubSeq(Chars(x.v), Chars(container.v)))
            ELSE Exc("TypeError")
      [] container.k = "dict" ->
            IF x.k \in {"list", "dict"} THEN Exc("TypeError")
            ELSE B(x.k = "str" /\ DictHas(container, x.v))
      [] OTHER -> Exc("TypeError")

\* ctx.get(name)
CtxGet(ctx, name) == IF name \in DOMAIN ctx THEN ctx[name] ELSE Null

\* str.lower() of the operator spellings that are not already lower case
LowerOf == ("IN" :> "in") @@ ("EQ" :> "eq") @@ ("GT" :> "gt") @@ ("LT" :> "lt")
PyLower(s) == IF s \in DOMAIN LowerOf THEN LowerOf[s] ELSE s

\* value.startswith("$") and value[1:]
StartsWithDollar(s) ==
    /\ s \in DOMAIN CharsOf
    /\ Len(Chars(s)) > 0
    /\ Head(Chars(s)) = "$"
AfterDollar(s) == StrOf(Tail(Chars(s)))

\* what iterating x yields (a dict yields its keys, a string its characters)
IsIterable(x) == x.k \in {"list", "dict", "str"}
IterOf(x) ==
    CASE x.k = "list" -> x.v
      [] x.k = "dict" -> DictKeySeq(x)
      [] x.k = "str" -> [i \in 1..Len(Chars(x.v)) |-> S(Chars(x.v)[i])]

\* ctx.get(name) for a name taken from an expression (a list or dict is unhashable)
CtxLookup(ctx, name) ==
    CASE name.k = "str" -> CtxGet(ctx, name.v)
      [] name.k \in {"list", "dict"} -> Exc("TypeError")
      [] OTHER -> Null

Truth(x) == IF IsExc(x) THEN x ELSE B(PyBool(x))

\* ------------------------------------------------------------------------
\* ExpressionEvaluator: eval_expr / _resolve_operand
\* ------------------------------------------------------------------------
RECURSIVE eval_expr(_, _), _resolve_operand(_, _), ResolveAll(_, _)
RECURSIVE AllOf(_, _), AnyOf(_, _)

\* all(eval_expr(item, ctx) for item in items), left to right, short-circuit
AllOf(items, ctx) ==
    IF Len(items) = 0 THEN B(TRUE)
    ELSE LET r == eval_expr(Head(items), ctx)
         IN  IF IsExc(r) THEN r
             ELSE IF ~r.v THEN B(FALSE)
             ELSE AllOf(Tail(items), ctx)

\* any(eval_expr(item, ctx) for item in items)
AnyOf(items, ctx) ==
    IF Len(items) = 0 THEN B(FALSE)
    ELSE LET r == eval_expr(Head(items), ctx)
         IN  IF IsExc(r) THEN r
             ELSE IF r.v THEN B(TRUE)
             ELSE AnyOf(Tail(items), ctx)

\* [_resolve_operand(item, ctx) for item in items]: a list, or the exception
ResolveAll(items, ctx) ==
    IF Len(items) = 0 THEN L(<<>>)
    ELSE LET first == _resolve_operand(Head(items), ctx)
         IN  IF IsExc(first) THEN first
             ELSE LET rest == ResolveAll(Tail(items), ctx)
                  IN  IF IsExc(rest) THEN rest ELSE L(<<first>> \o rest.v)

_resolve_operand(value, ctx) ==
    CASE value.k = "dict" /\ DictKeys(value) = {"var"} ->
            CtxLookup(ctx, DictGet(value, "var"))
      [] value.k = "dict" /\ DictKeys(value) # {"var"} -> eval_expr(value, ctx)
      [] value.k = "list" -> ResolveAll(value.v, ctx)
      [] value.k = "str" /\ StartsWithDollar(value.v) ->
            CtxGet(ctx, AfterDollar(value.v))
      [] OTHER -> value

\* resolved[0] <op> resolved[1] of a single-key node, op already lower-cased;
\* an operator that is none of the known ones leaves the dict branch without a
\* result, and the closing bool(_resolve_operand(expr, ctx)) re-enters eval_expr
\* on the same node without end.
KnownOps == {"==", "eq", "!=", "neq", "in", ">", "gt", ">=", "gte",
             "<", "lt", "<=", "lte", "contains"}
Negate(r) == IF IsExc(r) THEN r ELSE B(~r.v)
Caught(r) == IF IsExc(r) /\ r.v = "TypeError" THEN B(FALSE) ELSE r
Compare(op, resolved) ==
    IF op \notin KnownOps THEN Exc("RecursionError")
    ELSE IF Len(resolved) < 2 THEN Exc("IndexError")
    ELSE LET a == resolved[1]
             b == resolved[2]
         IN  CASE op \in {"==", "eq"} -> B(PyEq(a, b))
               [] op \in {"!=", "neq"} -> B(~PyEq(a, b))
               [] op = "in" -> Caught(PyIn(a, b))
               [] op \in {">", "gt"} -> PyLt(b, a)
               [] op \in {">=", "gte"} -> PyLe(b, a)
               [] op \in {"<", "lt"} -> PyLt(a, b)
               [] op \in {"<=", "lte"} -> PyLe(a, b)
               [] op = "contains" -> Caught(PyIn(b, a))

EvalQuantified(operand, ctx, isAll) ==
    IF ~IsIterable(operand) THEN Exc("TypeError")
    ELSE IF isAll THEN AllOf(IterOf(operand), ctx)
    ELSE AnyOf(IterOf(operand), ctx)

EvalDict(expr, ctx) ==
    IF DictHas(expr, "all") THEN EvalQuantified(DictGet(expr, "all"), ctx, TRUE)
    ELSE IF DictHas(expr, "any") THEN EvalQuantified(DictGet(expr, "any"), ctx, FALSE)
    ELSE IF DictHas(expr, "and") THEN EvalQuantified(DictGet(expr, "and"), ctx, TRUE)
    ELSE IF DictHas(expr, "or") THEN EvalQuantified(DictGet(expr, "or"), ctx, FALSE)
    ELSE IF DictHas(expr, "not") THEN
        LET operands == DictGet(expr, "not")
        IN  Negate(AnyOf(IF operands.k = "list" THEN operands.v ELSE <<operands>>, ctx))
    ELSE IF DictHas(expr, "var") /\ Len(expr.v) = 1 THEN
        Truth(CtxLookup(ctx, DictGet(expr, "var")))
    ELSE IF Len(expr.v) = 1 THEN
        LET op == expr.v[1][1]
            operands == expr.v[1][2]
            wrapped == IF operands.k \in {"list", "dict"} THEN IterOf(operands)
                       ELSE <<operands>>
            resolved == ResolveAll(wrapped, ctx)
        IN  IF IsExc(resolved) THEN resolved
            ELSE Compare(PyLower(op), resolved.v)
    ELSE Exc("RecursionError")

eval_expr(expr, ctx) ==
    CASE expr.k = "null" -> B(TRUE)
      [] expr.k = "bool" -> expr
      [] expr.k = "dict" -> EvalDict(expr, ctx)
      [] expr.k = "list" -> AllOf(expr.v, ctx)
      [] OTHER -> Truth(_resolve_operand(expr, ctx))

\* ------------------------------------------------------------------------
\* Survey configuration (read-only at runtime)
\* ------------------------------------------------------------------------
Var(name) == D(<<<<"var", S(name)>>>>)
Op(op, a, b) == D(<<<<op, L(<<a, b>>)>>>>)
NoPayload == D(<<>>)

\* survey.steps.order_by("order", "id")
Steps ==
    << [id |-> 1, code |-> "intro", order |-> 1],
       [id |-> 2, code |-> "basic", order |-> 2],
       [id |-> 3, code |-> "extra", order |-> 3] >>
StepCodes == {Steps[i].code : i \in 1..Len(Steps)}
NoStep == "none"

\* Question rows in id order (Meta.ordering); q_guardian_name is asked only
\* when a parent fills the form in and is shown first on its step by its order
\* hint; q_children_names is asked only of an applicant with children
Questions ==
    << [id |-> 1, step |-> "intro", code |-> "q_agree", type |-> "yes_no",
        required |-> TRUE, payload |-> NoPayload],
       [id |-> 2, step |-> "intro", code |-> "q_who_fills", type |-> "select_one",
        required |-> TRUE, payload |-> NoPayload],
       [id |-> 3, step |-> "basic", code |-> "q_dob", type |-> "date",
        required |-> TRUE, payload |-> NoPayload],
       [id |-> 4, step |-> "basic", code |-> "q_guardian_name", type |-> "text",
        required |-> TRUE, payload |-> D(<<<<"order", N(1)>>>>)],
       [id |-> 5, step |-> "basic", code |-> "q_application_date", type |-> "date",
        required |-> FALSE,
        payload |-> D(<<<<"constraints", D(<<<<"date_not_future", B(TRUE)>>>>)>>>>)],
       [id |-> 6, step |-> "extra", code |-> "q_children_count", type |-> "number",
        required |-> TRUE, payload |-> NoPayload],
       [id |-> 7, step |-> "extra", code |-> "q_children_names", type |-> "text",
        required |-> TRUE, payload |-> NoPayload] >>
QuestionCodes == {Questions[i].code : i \in 1..Len(Questions)}

Options ==
    ("q_who_fills" :> <<"self", "parent">>) @@
    ("q_needs" :> <<"wheelchair", "care", "transport">>)

\* Condition rows in id order (Meta.ordering)
Conditions ==
    << [id |-> 1, scope |-> "question", question |-> 4, from_step |-> NoStep,
        goto_step |-> NoStep,
        expression |-> Op("==", Var("q_who_fills"), S("parent"))],
       [id |-> 2, scope |-> "question", question |-> 4, from_step |-> NoStep,
        goto_step |-> NoStep,
        expression |-> Var("q_agree")],
       [id |-> 3, scope |-> "question", question |-> 7, from_step |-> NoStep,
        goto_step |-> NoStep,
        expression |-> Op(">", Var("q_children_count"), N(0))],
       [id |-> 4, scope |-> "step", question |-> 0, from_step |-> "intro",
        goto_step |-> "extra",
        expression |-> Op("==", Var("q_who_fills"), S("self"))] >>

\* ------------------------------------------------------------------------
\* VisibilityResolver and the completeness pass
\* ------------------------------------------------------------------------
\* payload.get("order", item.id)
OrderKey(question) ==
    IF DictHas(question.payload, "order")
    THEN NumVal(DictGet(question.payload, "order"))
    ELSE question.id

\* list.sort(key=...): stable insertion into an already sorted prefix
RECURSIVE InsertSorted(_, _)
InsertSorted(sorted, q) ==
    IF Len(sorted) = 0 THEN <<q>>
    ELSE IF OrderKey(Head(sorted)) <= OrderKey(q)
         THEN <<Head(sorted)>> \o InsertSorted(Tail(sorted), q)
         ELSE <<q>> \o sorted
RECURSIVE SortByOrder(_)
SortByOrder(qs) ==
    IF Len(qs) = 0 THEN <<>>
    ELSE InsertSorted(SortByOrder(SubSeq(qs, 1, Len(qs) - 1)), qs[Len(qs)])

StepQuestions(step) == SelectSeq(Questions, LAMBDA q : q.step = step)
QuestionConditions(question) ==
    SelectSeq(Conditions, LAMBDA c : c.scope = "question" /\ c.question = question.id)

\* all(eval_expr(cond.expression, answers) for cond in required_conditions)
RECURSIVE AllConditions(_, _), AllConditionsAfter(_, _, _)
AllConditionsAfter(first, conds, answers) ==
    IF IsExc(first) THEN first
    ELSE IF ~first.v THEN B(FALSE)
    ELSE AllConditions(Tail(conds), answers)
AllConditions(conds, answers) ==
    IF Len(conds) = 0 THEN B(TRUE)
    ELSE AllConditionsAfter(eval_expr(Head(conds).expression, answers), conds, answers)

\* the visible questions of the sorted list qs: a list, or the exception raised
RECURSIVE VisibleAmong(_, _), VisibleFrom(_, _, _, _)
\* if required_conditions and not all(...): continue
Shown(conds, answers) ==
    IF Len(conds) = 0 THEN B(TRUE) ELSE AllConditions(conds, answers)
KeepVisible(q, shown, rest) ==
    IF IsExc(rest) THEN rest
    ELSE IF shown.v THEN L(<<q>> \o rest.v)
    ELSE rest
VisibleFrom(q, shown, qs, answers) ==
    IF IsExc(shown) THEN shown
    ELSE KeepVisible(q, shown, VisibleAmong(Tail(qs), answers))
VisibleAmong(qs, answers) ==
    IF Len(qs) = 0 THEN L(<<>>)
    ELSE VisibleFrom(Head(qs), Shown(QuestionConditions(Head(qs)), answers),
                     qs, answers)

\* result.sort(key=...) of the questions found
SortFound(found) == IF IsExc(found) THEN found ELSE L(SortByOrder(found.v))

visible_questions(step, answers) ==
    SortFound(VisibleAmong(SortByOrder(StepQuestions(step)), answers))

\* value in (None, "", [], {})
IsEmptyValue(value) ==
    \/ value.k = "null"
    \/ value.k = "str" /\ value.v = ""
    \/ value.k \in {"list", "dict"} /\ Len(value.v) = 0

RequiredError(code) == [field |-> <<code>>, message |-> "required"]

\* the visible questions that are required and whose answer is empty
MissingRequired(visible, answers) ==
    SelectSeq(visible, LAMBDA q : q.required /\ IsEmptyValue(CtxGet(answers, q.code)))
RequiredErrors(missing) ==
    L([i \in 1..Len(missing) |-> RequiredError(missing[i].code)])
RequiredAmong(visible, answers) ==
    IF IsExc(visible) THEN visible
    ELSE RequiredErrors(MissingRequired(visible.v, answers))

validate_required(step, answers) ==
    RequiredAmong(visible_questions(step, answers), answers)

\* ------------------------------------------------------------------------
\* StepNavigator
\* ------------------------------------------------------------------------
\* a survey as next_step reads it: its Step rows and the Condition rows, both
\* in id order
Survey(steps, conditions) == [steps |-> steps, conditions |-> conditions]
\* a Step object returned to the caller
StepRef(code) == [k |-> "step", v |-> code]

\* survey.steps.order_by("order", "id")
StepPrecedes(a, b) == a.order < b.order \/ (a.order = b.order /\ a.id < b.id)
RECURSIVE InsertStep(_, _)
InsertStep(sorted, step) ==
    IF Len(sorted) = 0 THEN <<step>>
    ELSE IF StepPrecedes(step, Head(sorted)) THEN <<step>> \o sorted
    ELSE <<Head(sorted)>> \o InsertStep(Tail(sorted), step)
\* The steps as the table holds them, without order_by
StepsInTableOrder(rows) == rows
RECURSIVE OrderedSteps(_)
OrderedSteps(rows) ==
    IF Len(rows) = 0 THEN <<>>
    ELSE InsertStep(OrderedSteps(Tail(rows)), Head(rows))

\* Condition.objects.filter(scope="step", from_step=current_step), in the id
\* order of Condition.Meta.ordering
StepConditions(conditions, current) ==
    SelectSeq(conditions, LAMBDA c : c.scope = "step" /\ c.from_step = current)
\* condition.goto_step (a nullable foreign key)
GotoStep(condition) ==
    IF condition.goto_step = NoStep THEN Null ELSE StepRef(condition.goto_step)

\* A navigation without the linear fallback
NoFallback(steps, current) == Null
\* steps.index(current_step) and the step after it; None when the step is
\* not in the list (ValueError) or is the last one
Following(steps, current) ==
    IF \A i \in 1..Len(steps) : steps[i].code # current THEN Null
    ELSE LET idx == CHOOSE i \in 1..Len(steps) : steps[i].code = current
         IN  IF idx + 1 <= Len(steps) THEN StepRef(steps[idx + 1].code) ELSE Null

\* for condition in step_conditions: if eval_expr(...): return goto_step
RECURSIVE FirstMatching(_, _, _), MatchAfter(_, _, _, _)
MatchAfter(truth, conds, answers, fallback) ==
    IF IsExc(truth) THEN truth
    ELSE IF truth.v THEN GotoStep(Head(conds))
    ELSE FirstMatching(Tail(conds), answers, fallback)
FirstMatching(conds, answers, fallback) ==
    IF Len(conds) = 0 THEN fallback
    ELSE MatchAfter(eval_expr(Head(conds).expression, answers), conds, answers,
                    fallback)

\* the next step (a Step, or None), or the exception raised
next_step(survey, current, answers) ==
    IF Len(survey.steps) = 0 THEN Null
    ELSE IF current = NoStep THEN StepRef(OrderedSteps(survey.steps)[1].code)
    ELSE FirstMatching(StepConditions(survey.conditions, current), answers,
                       Following(OrderedSteps(survey.steps), current))

\* ------------------------------------------------------------------------
\* DocumentRequirementChecker
\* ------------------------------------------------------------------------
\* str.strip()
RECURSIVE DropLeading(_)
DropLeading(chars) ==
    IF Len(chars) > 0 /\ Head(chars) = " " THEN DropLeading(Tail(chars)) ELSE chars
RECURSIVE DropTrailing(_)
DropTrailing(chars) ==
    IF Len(chars) > 0 /\ chars[Len(chars)] = " "
    THEN DropTrailing(SubSeq(chars, 1, Len(chars) - 1))
    ELSE chars
PyStrip(s) ==
    IF s \in DOMAIN CharsOf THEN StrOf(DropTrailing(DropLeading(Chars(s)))) ELSE s

BranchMapping ==
    ("self" :> "adult") @@ ("relative" :> "adult") @@
    ("parent" :> "child") @@ ("guardian" :> "child")
MappingGet(key) ==
    IF key \in DOMAIN BranchMapping THEN S(BranchMapping[key]) ELSE Null

_derive_branch(applicantType, answers) ==
    LET branch == MappingGet(PyStrip(applicantType))
        who_fills == CtxGet(answers, "q_who_fills")
    IN  IF PyBool(branch) THEN branch
        ELSE IF who_fills.k = "str" THEN MappingGet(PyStrip(who_fills.v))
        ELSE Null

\* datetime.strptime(value, "%Y-%m-%d").date(): <<year, month, day>>, or <<>>
\* for ValueError
Digits == <<"0", "1", "2", "3", "4", "5", "6", "7", "8", "9">>
IsDigit(c) == c \in Range(Digits)
DigitVal(c) == (CHOOSE i \in 1..Len(Digits) : Digits[i] = c) - 1
AllDigits(chars) == \A i \in 1..Len(chars) : IsDigit(chars[i])
RECURSIVE NumberOf(_)
NumberOf(chars) ==
    IF Len(chars) = 0 THEN 0
    ELSE NumberOf(SubSeq(chars, 1, Len(chars) - 1)) * 10 + DigitVal(chars[Len(chars)])

RECURSIVE SplitOn(_, _)
SplitOn(chars, sep) ==
    IF \A i \in 1..Len(chars) : chars[i] # sep THEN <<chars>>
    ELSE LET at == CHOOSE i \in 1..Len(chars) :
                       chars[i] = sep /\ \A j \in 1..(i - 1) : chars[j] # sep
         IN  <<SubSeq(chars, 1, at - 1)>> \o SplitOn(SubSeq(chars, at + 1, Len(chars)), sep)

IsLeap(year) == (year % 4 = 0 /\ year % 100 # 0) \/ year % 400 = 0
DaysInMonth(year, month) ==
    IF month = 2 THEN (IF IsLeap(year) THEN 29 ELSE 28)
    ELSE IF month \in {4, 6, 9, 11} THEN 30
    ELSE 31

\* %Y is four digits, %m one or two digits in 1..12, %d one or two digits (or
\* a blank and a digit) in 1..31; the date must exist
StrpDate(chars) ==
    LET parts == SplitOn(chars, "-")
    IN  IF Len(parts) # 3 THEN <<>>
        ELSE LET y == parts[1]
                 m == parts[2]
                 d0 == parts[3]
                 d == IF Len(d0) = 2 /\ d0[1] = " " THEN Tail(d0) ELSE d0
             IN  IF /\ Len(y) = 4 /\ AllDigits(y) /\ NumberOf(y) >= 1
                    /\ Len(m) \in {1, 2} /\ AllDigits(m) /\ NumberOf(m) \in 1..12
                    /\ Len(d) \in {1, 2} /\ Len(d) <= Len(d0) /\ AllDigits(d)
                    /\ NumberOf(d) >= 1
                    /\ NumberOf(d) <= DaysInMonth(NumberOf(y), NumberOf(m))
                 THEN <<NumberOf(y), NumberOf(m), NumberOf(d)>>
                 ELSE <<>>

\* date.today()
Today == <<2026, 3, 1>>

\* (a.month, a.day) < (b.month, b.day)
MonthDayLess(a, b) == a[2] < b[2] \/ (a[2] = b[2] /\ a[3] < b[3])

_derive_age(answers) ==
    LET dob_value == CtxGet(answers, "q_dob")
    IN  IF ~PyBool(dob_value) THEN Null
        ELSE IF dob_value.k # "str" THEN Null
        ELSE LET dob == StrpDate(Chars(dob_value.v))
             IN  IF dob = <<>> THEN Null
                 ELSE LET years == Today[1] - dob[1]
                                   - (IF MonthDayLess(Today, dob) THEN 1 ELSE 0)
                      IN  N(IF years > 0 THEN years ELSE 0)

\* context.setdefault(key, value)
SetDefault(ctx, key, value) == IF key \in DOMAIN ctx THEN ctx ELSE (key :> value) @@ ctx

\* list_versions(application): versions of the non-archived documents ordered
\* by document creation, then newest version first
RECURSIVE ListVersionsFrom(_, _)
ListVersionsFrom(docs, i) ==
    IF i > Len(docs) THEN <<>>
    ELSE LET doc == docs[i]
             n == Len(doc.versions)
             own == IF doc.is_archived THEN <<>>
                    ELSE [j \in 1..n |-> [document_id |-> i, version |-> n + 1 - j,
                                          status |-> doc.versions[n + 1 - j]]]
         IN  own \o ListVersionsFrom(docs, i + 1)
list_versions(docs) == ListVersionsFrom(docs, 1)

\* latest_by_document: the first version seen of each document
RECURSIVE LatestByDocument(_, _)
LatestByDocument(versions, seen) ==
    IF Len(versions) = 0 THEN <<>>
    ELSE LET version == Head(versions)
         IN  IF version.document_id \in seen
             THEN LatestByDocument(Tail(versions), seen)
             ELSE <<version>> \o
                  LatestByDocument(Tail(versions), seen \cup {version.document_id})

\* requirement.code of the document's requirement, else document.code or "";
\* a document holds the code of the requirement it points to, or NoRequirement
NoRequirement == "none"
DocumentCode(doc) ==
    IF doc.requirement # NoRequirement THEN doc.requirement ELSE doc.code
VersionCode(docs, version) == DocumentCode(docs[version.document_id])

AcceptableStatuses == {"available", "uploaded"}

DocumentError(code) == [field |-> <<"documents", code>>, message |-> "missing"]

\* expression in (None, True) or eval_expr(expression, context)
IsRequired(expression, context) ==
    IF PyEq(expression, Null) \/ PyEq(expression, B(TRUE)) THEN B(TRUE)
    ELSE eval_expr(expression, context)

\* versions_by_code.get(requirement.code, [])
VersionsForRequirement(requirement, docs, latest) ==
    SelectSeq(latest, LAMBDA version :
        /\ VersionCode(docs, version) # ""
        /\ VersionCode(docs, version) = requirement.code)

\* any(version.status in ACCEPTABLE_STATUSES for version in ...)
HasReadyVersion(versions_for_requirement) ==
    \E j \in 1..Len(versions_for_requirement) :
        versions_for_requirement[j].status \in AcceptableStatuses

\* the loop over requirements: the errors so far, or the exception raised
RECURSIVE CheckRequirements(_, _, _, _, _), CheckFrom(_, _, _, _, _, _)
AddDocumentError(requirement, missing, rest) ==
    IF IsExc(rest) THEN rest
    ELSE IF missing THEN L(<<DocumentError(requirement.code)>> \o rest.v)
    ELSE rest
CheckFrom(required, reqs, i, context, docs, latest) ==
    IF IsExc(required) THEN required
    ELSE AddDocumentError(
             reqs[i],
             required.v /\ ~HasReadyVersion(
                               VersionsForRequirement(reqs[i], docs, latest)),
             CheckRequirements(reqs, i + 1, context, docs, latest))
CheckRequirements(reqs, i, context, docs, latest) ==
    IF i > Len(reqs) THEN L(<<>>)
    ELSE CheckFrom(IsRequired(reqs[i].expression, context), reqs, i, context,
                   docs, latest)

\* context = dict(answers) with branch and age filled in when derived
WithBranch(answers, branch) ==
    IF PyBool(branch) THEN SetDefault(answers, "branch", branch) ELSE answers
WithAge(context, age) ==
    IF age.k # "null" THEN SetDefault(context, "age", age) ELSE context
DocumentContext(applicantType, answers) ==
    WithAge(WithBranch(answers, _derive_branch(applicantType, answers)),
            _derive_age(answers))

validate_documents(reqs, applicantType, docs, answers) ==
    IF Len(reqs) = 0 THEN L(<<>>)
    ELSE CheckRequirements(reqs, 1, DocumentContext(applicantType, answers), docs,
                           LatestByDocument(list_versions(docs), {}))

\* ------------------------------------------------------------------------
\* AnswerValidator (the question types of the survey above) and the answer patch
\* ------------------------------------------------------------------------
Accepted(value) == [value |-> value, error |-> ""]
Rejected(message) == [value |-> Null, error |-> message]

\* raw_value in (None, "")
IsNoneOrBlank(raw) == raw.k = "null" \/ (raw.k = "str" /\ raw.v = "")

_validate_string(raw) ==
    IF IsNoneOrBlank(raw) THEN Accepted(raw)
    ELSE IF raw.k # "str" THEN Rejected("not a string")
    ELSE Accepted(S(PyStrip(raw.v)))

_validate_select(question, raw) ==
    IF IsNoneOrBlank(raw) THEN Accepted(raw)
    ELSE IF raw.k # "str" THEN Rejected("not a string")
    ELSE IF question.code \notin DOMAIN Options
            \/ raw.v \notin Range(Options[question.code])
         THEN Rejected("not an option")
    ELSE Accepted(raw)

_validate_boolean(raw) ==
    IF IsNoneOrBlank(raw) THEN Accepted(Null)
    ELSE IF raw.k = "bool" THEN Accepted(raw)
    ELSE IF raw.k = "str" /\ PyLower(PyStrip(raw.v)) \in {"true", "1", "yes", "on"}
         THEN Accepted(B(TRUE))
    ELSE IF raw.k = "str" /\ PyLower(PyStrip(raw.v)) \in {"false", "0", "no", "off"}
         THEN Accepted(B(FALSE))
    ELSE Rejected("not a boolean")

\* date.isoformat(): zero-padded YYYY-MM-DD
Pad(n, width) ==
    [i \in 1..width |-> Digits[((n \div (10 ^ (width - i))) % 10) + 1]]
\* the date written day first, as the forms of the site show it
DottedFormat(d) == StrOf(Pad(d[3], 2) \o <<".">> \o Pad(d[2], 2) \o <<".">> \o Pad(d[1], 4))
IsoFormat(d) == StrOf(Pad(d[1], 4) \o <<"-">> \o Pad(d[2], 2) \o <<"-">> \o Pad(d[3], 2))

\* a > b for dates
DateAfter(a, b) ==
    \/ a[1] > b[1]
    \/ a[1] = b[1] /\ a[2] > b[2]
    \/ a[1] = b[1] /\ a[2] = b[2] /\ a[3] > b[3]

_validate_date(raw, constraints) ==
    IF IsNoneOrBlank(raw) THEN Accepted(raw)
    ELSE IF raw.k # "str" THEN Rejected("not a string")
    ELSE LET parsed == StrpDate(Chars(raw.v))
         IN  IF parsed = <<>> THEN Rejected("bad date format")
             ELSE IF /\ constraints.k = "dict"
                     /\ DictHas(constraints, "date_not_future")
                     /\ PyBool(DictGet(constraints, "date_not_future"))
                     /\ DateAfter(parsed, Today)
                  THEN Rejected("date in the future")
             ELSE Accepted(S(IsoFormat(parsed)))

\* EMAIL_RE ^[^@\s]+@[^@\s]+\.[^@\s]+$ : one "@", no blank, a local part, and
\* after the "@" a dot with something on both sides
EmailMatches(chars) ==
    /\ \A i \in 1..Len(chars) : chars[i] # " "
    /\ Cardinality({i \in 1..Len(chars) : chars[i] = "@"}) = 1
    /\ LET at == CHOOSE i \in 1..Len(chars) : chars[i] = "@"
       IN  /\ at > 1
           /\ \E dot \in (at + 2)..(Len(chars) - 1) : chars[dot] = "."
\* PHONE_RE ^\+7\d{10}$
PhoneMatches(chars) ==
    /\ Len(chars) = 12
    /\ chars[1] = "+" /\ chars[2] = "7"
    /\ AllDigits(SubSeq(chars, 3, 12))

\* value, error = _validate_string(raw); pattern.match(value)
MatchedString(checked, matches, message) ==
    IF checked.error # "" \/ IsNoneOrBlank(checked.value) THEN checked
    ELSE IF ~matches THEN Rejected(message)
    ELSE checked
_validate_email(raw) ==
    MatchedString(_validate_string(raw),
                  raw.k = "str" /\ raw.v \in DOMAIN CharsOf
                      /\ EmailMatches(Chars(PyStrip(raw.v))),
                  "bad email")
_validate_phone(raw) ==
    MatchedString(_validate_string(raw),
                  raw.k = "str" /\ raw.v \in DOMAIN CharsOf
                      /\ PhoneMatches(Chars(PyStrip(raw.v))),
                  "bad phone")

\* the loop of _validate_multiselect: the cleaned list, or the first error
RECURSIVE CleanOptions(_, _, _)
CleanOptions(items, allowed, cleaned) ==
    IF Len(items) = 0 THEN Accepted(L(cleaned))
    ELSE IF Head(items).k # "str" THEN Rejected("option codes must be strings")
    ELSE IF Head(items).v \notin allowed THEN Rejected("not an option in the list")
    ELSE CleanOptions(Tail(items), allowed,
                      IF Head(items) \in Range(cleaned) THEN cleaned
                      ELSE Append(cleaned, Head(items)))
_validate_multiselect(question, raw) ==
    IF raw.k = "null" \/ raw = L(<<>>) THEN Accepted(L(<<>>))
    ELSE IF raw.k # "list" THEN Rejected("not a list")
    ELSE CleanOptions(raw.v,
                      IF question.code \in DOMAIN Options
                      THEN Range(Options[question.code]) ELSE {},
                      <<>>)

\* float(raw_value) of a string: decimal digits with an optional "+" before
\* them, blanks around them ignored; every other string examined here is a
\* ValueError, every value that is no string a TypeError. A number of more
\* than nine digits is held by its digits.
Unsigned(chars) == IF Len(chars) > 0 /\ Head(chars) = "+" THEN Tail(chars) ELSE chars
FloatOf(digits) ==
    IF Len(digits) = 0 \/ ~AllDigits(digits) THEN Exc("ValueError")
    ELSE IF Len(digits) <= 9 THEN N(NumberOf(digits))
    ELSE [k |-> "num", v |-> digits]
PyFloat(raw) ==
    IF raw.k # "str" THEN Exc("TypeError")
    ELSE IF raw.v \notin DOMAIN CharsOf THEN Exc("ValueError")
    ELSE FloatOf(Unsigned(DropTrailing(DropLeading(Chars(raw.v)))))
\* the NUMBER branch of validate_answer_value
ValidateNumber(raw) ==
    IF IsNoneOrBlank(raw) THEN Accepted(raw)
    ELSE IF IsNumeric(raw) THEN Accepted(raw)
    ELSE IF IsExc(PyFloat(raw)) THEN Rejected("not a number")
    ELSE Accepted(PyFloat(raw))

validate_answer_value(question, raw) ==
    LET constraints == IF DictHas(question.payload, "constraints")
                          /\ PyBool(DictGet(question.payload, "constraints"))
                       THEN DictGet(question.payload, "constraints")
                       ELSE D(<<>>)
    IN  CASE question.type \in {"text", "textarea"} -> _validate_string(raw)
          [] question.type = "email" -> _validate_email(raw)
          [] question.type = "phone" -> _validate_phone(raw)
          [] question.type = "date" -> _validate_date(raw, constraints)
          [] question.type \in {"boolean", "yes_no"} -> _validate_boolean(raw)
          [] question.type \in {"select", "select_one"} -> _validate_select(question, raw)
          [] question.type \in {"multiselect", "select_many"} ->
                _validate_multiselect(question, raw)
          [] question.type = "number" -> ValidateNumber(raw)
          [] OTHER -> Accepted(raw)

QuestionByCode(code) == CHOOSE q \in Range(Questions) : q.code = code

PatchError(code, message) == [field |-> <<code>>, message |-> message]

\* the validation loop of _apply_answer_patch: the errors of the items, in order
RECURSIVE PatchErrors(_)
\* A loop that lets an invalid value through
IgnoredErrors(entry, checked) == <<>>
ItemErrors(entry, checked) ==
    IF checked.error # "" THEN <<PatchError(entry.question_code, checked.error)>>
    ELSE <<>>
PatchErrors(items) ==
    IF Len(items) = 0 THEN <<>>
    ELSE IF Head(items).question_code \notin QuestionCodes
    THEN <<PatchError(Head(items).question_code, "unknown question")>>
         \o PatchErrors(Tail(items))
    ELSE ItemErrors(Head(items),
                    validate_answer_value(QuestionByCode(Head(items).question_code),
                                          Head(items).value))
         \o PatchErrors(Tail(items))

\* Answer.objects.update_or_create for each item of to_update, in order
RECURSIVE StoreAnswers(_, _)
StoreAnswers(items, stored) ==
    IF Len(items) = 0 THEN stored
    ELSE LET entry == Head(items)
             normalized == validate_answer_value(
                               QuestionByCode(entry.question_code), entry.value).value
         IN  StoreAnswers(Tail(items),
                 (entry.question_code :> normalized) @@ stored)

\* _apply_answer_patch: the errors returned and the answers stored afterwards
PatchOutcome(errors, items, stored) ==
    [errors |-> errors,
     answers |-> IF Len(errors) > 0 THEN stored ELSE StoreAnswers(items, stored)]
_apply_answer_patch(items, stored) == PatchOutcome(PatchErrors(items), items, stored)

\* date question codes an application gets today's date for
AUTO_FILL_DATE_CODES == {"q_application_date"}

\* _ensure_default_answers
RECURSIVE EnsureDefaults(_, _)
EnsureDefaults(codes, stored) ==
    IF codes = {} THEN stored
    ELSE LET code == CHOOSE c \in codes : TRUE
             next == IF code \in DOMAIN stored \/ code \notin QuestionCodes
                     THEN stored
                     ELSE (code :> S(IsoFormat(Today))) @@ stored
         IN  EnsureDefaults(codes \ {code}, next)
_ensure_default_answers(stored) == EnsureDefaults(AUTO_FILL_DATE_CODES, stored)

\* ------------------------------------------------------------------------
\* ApplicationStateMachine
\* ------------------------------------------------------------------------
Statuses == {"draft", "submitted", "under_review", "approved", "rejected"}

\* A table that also lets a reviewer decide an application under review
TransitionsWithReviewExits ==
    ("draft" :> {"submitted"}) @@
    ("submitted" :> {"under_review", "approved", "rejected"}) @@
    ("under_review" :> {"approved", "rejected"})

\* config.constants.APPLICATION_STATUS_ALLOWED_TRANSITIONS
APPLICATION_STATUS_ALLOWED_TRANSITIONS ==
    ("draft" :> {"submitted"}) @@
    ("submitted" :> {"under_review", "approved", "rejected"})

\* A decision that consults the table before comparing the two statuses
DecisionWithoutShortcut(current_status, new_status) ==
    IF \/ current_status \notin DOMAIN APPLICATION_STATUS_ALLOWED_TRANSITIONS
       \/ new_status \notin APPLICATION_STATUS_ALLOWED_TRANSITIONS[current_status]
    THEN "invalid"
    ELSE "write"

\* what change_status decides from the status of the application object it was
\* handed: "unchanged" (returns it as is), "invalid" (raises ValidationError),
\* or "write" (enters the transaction)
change_status_decision(current_status, new_status) ==
    IF current_status = new_status THEN "unchanged"
    ELSE IF \/ current_status \notin DOMAIN APPLICATION_STATUS_ALLOWED_TRANSITIONS
            \/ new_status \notin APPLICATION_STATUS_ALLOWED_TRANSITIONS[current_status]
         THEN "invalid"
    ELSE "write"

\* ------------------------------------------------------------------------
\* State
\* ------------------------------------------------------------------------
\* Requests served at the same time (two workers, tabs or channels)
Procs == {"r1", "r2"}
\* Requests started in one behaviour
MaxCalls == 3

VARIABLES
    status,          \* Application.status as stored
    submitted_at,    \* Application.submitted_at as stored (0 is NULL)
    current_step,    \* Application.current_step (a step code, or NoStep)
    applicant_type,  \* Application.applicant_type
    answers,         \* Answer rows of the application: question code -> value
    history,         \* committed ApplicationStatusHistory rows
    audit_log,       \* number of committed AuditLog rows per action
    documents,       \* Document rows of the application, in creation order
    requirements,    \* DocumentRequirement rows of the survey, in id order
    now,             \* the clock timezone.now() reads
    req,             \* per worker: the request being served, or its response
    calls,           \* requests started so far
    evaluation,      \* the form-runtime call last made: function, arguments, result
    answer_rows,     \* Answer rows of the application as the table holds them, in id order
    current_stage,   \* Application.current_stage
    magic_token,     \* the MagicLinkToken row issued to the user: expires_at, used_at
    account          \* the User row of the applicant: role, other applications

sessionVars == <<current_stage, magic_token, account>>
vars == <<status, submitted_at, current_step, applicant_type, answers, history,
          audit_log, documents, requirements, now, req, calls, evaluation, answer_rows, sessionVars>>
formVars == <<current_step, applicant_type, documents, requirements, evaluation, answer_rows, sessionVars>>

NoRequest ==
    [pc |-> "idle", op |-> "none", actor |-> "none", app_status |-> "draft",
     app_submitted_at |-> 0, new_status |-> "none", created_at |-> 0,
     result |-> "none", errors |-> <<>>]

NoAnswers == <<>>
\* no magic link has been issued; the application has no user
NoToken == [expires_at |-> 0, used_at |-> 0]
NoUser == [exists |-> FALSE, role |-> "none", other_applications |-> FALSE]
\* step.order of the step with this code, 0 for no step
StepOrder(steps, code) ==
    IF code = NoStep THEN 0
    ELSE steps[CHOOSE i \in 1..Len(steps) : steps[i].code = code].order
\* no form-runtime call has been made
NoEvaluation == [fn |-> "none", arg |-> <<>>, out |-> Null]
Doc(requirement, code, archived, versions) ==
    [requirement |-> requirement, code |-> code, is_archived |-> archived,
     versions |-> versions]
Requirement(code, expression) == [code |-> code, expression |-> expression]

\* The requirements of the survey: a passport for everyone, a birth
\* certificate for a child applicant
DefaultRequirements ==
    << Requirement("passport", Null),
       Requirement("birth_certificate", Op("==", Var("branch"), S("child"))) >>

\* Applications as create_session and the answer patches leave them
InitialForms ==
    { [current_step |-> "basic", applicant_type |-> "self",
       answers |-> ("q_agree" :> B(TRUE)) @@ ("q_who_fills" :> S("self"))
                   @@ ("q_dob" :> S("1990-12-01")),
       documents |-> <<Doc("passport", "passport", FALSE, <<"available">>)>>],
      [current_step |-> "basic", applicant_type |-> "self",
       answers |-> ("q_agree" :> B(TRUE)) @@ ("q_who_fills" :> S("self")),
       documents |-> <<Doc("passport", "passport", FALSE, <<"available">>)>>],
      [current_step |-> "basic", applicant_type |-> "",
       answers |-> ("q_agree" :> B(TRUE)) @@ ("q_who_fills" :> S("parent"))
                   @@ ("q_dob" :> S("2015-06-15")),
       documents |-> <<Doc("passport", "passport", FALSE, <<"available", "pending">>)>>],
      [current_step |-> NoStep, applicant_type |-> "parent",
       answers |-> NoAnswers,
       documents |-> <<Doc("passport", "passport", FALSE, <<"uploaded">>),
                       Doc(NoRequirement, "birth_certificate", TRUE,
                           <<"available">>)>>] }

Init ==
    /\ status = "draft"
    /\ submitted_at = 0
    /\ \E form \in InitialForms :
          /\ current_step = form.current_step
          /\ applicant_type = form.applicant_type
          /\ answers = form.answers
          /\ documents = form.documents
    /\ requirements = DefaultRequirements
    /\ history = <<>>
    /\ audit_log = [action \in {"status_change", "submit"} |-> 0]
    /\ now = 1
    /\ req = [p \in Procs |-> NoRequest]
    /\ calls = 0
    /\ evaluation = NoEvaluation
    /\ answer_rows = <<>>
    /\ current_stage = StepOrder(Steps, current_step)
    /\ magic_token = NoToken
    /\ account = NoUser

\* ------------------------------------------------------------------------
\* Requests
\* ------------------------------------------------------------------------
\* request.user of post_submit: the owner of the application, or the
\* AnonymousUser of a session-token request
SubmitActors == {"owner", "anonymous"}
\* new_status = serializers.CharField(): any string
RequestedStatuses == Statuses \cup {"archived"}

Item(code, value) == [question_code |-> code, value |-> value]
\* request.data["answers"] of post_submit: absent, a date to normalise, a
\* malformed date
SubmitPatches ==
    { <<>>,
      <<Item("q_dob", S("2015-6-15"))>>,
      <<Item("q_dob", S("15.06.2015"))>> }

Idle(p) == req[p].pc \in {"idle", "done"}
\* the response of the view: the application object and the row it was
\* building are dropped with the request
Respond(p, result, errors) ==
    [req[p] EXCEPT !.pc = "done", !.result = result, !.errors = errors,
                   !.app_submitted_at = 0, !.created_at = 0]
Audit(log, action) == [log EXCEPT ![action] = @ + 1]

Loaded(p, op, actor, new_status) ==
    [pc |-> "loaded", op |-> op, actor |-> actor,
     app_status |-> status, app_submitted_at |-> submitted_at,
     new_status |-> new_status, created_at |-> 0,
     result |-> "none", errors |-> <<>>]

\* application_status_patch up to the call of change_status: the application
\* is read from the database and the body is validated
StatusPatchLoad(p, new_status) ==
    /\ Idle(p)
    /\ calls < MaxCalls
    /\ calls' = calls + 1
    \* request.user is an employee or admin (IsEmployeeOrAdmin)
    /\ req' = [req EXCEPT ![p] = Loaded(p, "status_patch", "employee", new_status)]
    /\ UNCHANGED <<status, submitted_at, answers, history, audit_log, now, formVars>>

\* post_submit up to the call of change_status: the application is read, the
\* optional answers are patched in, the defaults are filled and both validation
\* passes run (ensure_applicant_account returns at once: the survey has no
\* contact questions)
SubmitOutcome(outcome, errors, stored) ==
    [outcome |-> outcome, errors |-> errors, answers |-> stored]

\* A submit that looks at the step errors only
CollectedWithoutDocuments(step_errors, document_errors, stored) ==
    IF IsExc(step_errors) \/ IsExc(document_errors)
    THEN SubmitOutcome("server_error", <<>>, stored)
    ELSE IF Len(step_errors.v) > 0
    THEN SubmitOutcome("validation_error", step_errors.v, stored)
    ELSE SubmitOutcome("valid", <<>>, stored)

\* errors.extend(step_errors); errors.extend(document_errors); if errors: ...
Collected(step_errors, document_errors, stored) ==
    IF IsExc(step_errors) \/ IsExc(document_errors)
    THEN SubmitOutcome("server_error", <<>>, stored)
    ELSE IF Len(step_errors.v \o document_errors.v) > 0
    THEN SubmitOutcome("validation_error", step_errors.v \o document_errors.v, stored)
    ELSE SubmitOutcome("valid", <<>>, stored)

\* step_errors and document_errors over build_answer_dict(application)
Validated(stored) ==
    Collected(IF current_step # NoStep THEN validate_required(current_step, stored)
              ELSE L(<<>>),
              validate_documents(requirements, applicant_type, documents, stored),
              stored)

Patched(patch, stored) ==
    IF Len(patch.errors) > 0
    THEN SubmitOutcome("validation_error", patch.errors, stored)
    ELSE Validated(_ensure_default_answers(patch.answers))

SubmitResult(items, stored) ==
    IF Len(items) > 0 THEN Patched(_apply_answer_patch(items, stored), stored)
    ELSE Validated(_ensure_default_answers(stored))

SubmitChecked(p, actor, checked) ==
    /\ answers' = checked.answers
    /\ req' = [req EXCEPT ![p] =
                 IF checked.outcome = "valid" THEN Loaded(p, "submit", actor, "submitted")
                 ELSE [Loaded(p, "submit", actor, "submitted") EXCEPT
                          !.pc = "done", !.result = checked.outcome,
                          !.errors = checked.errors]]

SubmitLoad(p, actor, items) ==
    /\ Idle(p)
    /\ calls < MaxCalls
    /\ calls' = calls + 1
    /\ SubmitChecked(p, actor, SubmitResult(items, answers))
    /\ UNCHANGED <<status, submitted_at, history, audit_log, now, formVars>>

\* the audit row the view writes once change_status has returned
ViewAudit(p) == IF req[p].op = "submit" THEN "submit" ELSE "status_change"

\* change_status up to the INSERT of the history row: the decision is taken
\* on the status of the application object the view loaded; created_at
\* (auto_now_add) is read from the clock before the row is written
\* return application: the view goes on to its own audit row
ReturnUnchanged(p) ==
    /\ req' = [req EXCEPT ![p] = Respond(p, "unchanged", <<>>)]
    /\ audit_log' = Audit(audit_log, ViewAudit(p))
    /\ UNCHANGED now

\* A refusal that leaves an audit row behind
RaiseValidationErrorAudited(p) ==
    /\ req' = [req EXCEPT ![p] = Respond(p, "invalid_transition", <<>>)]
    /\ audit_log' = Audit(audit_log, "status_change")
    /\ UNCHANGED now

\* raise ValidationError: the view answers 400 and writes nothing
RaiseValidationError(p) ==
    /\ req' = [req EXCEPT ![p] = Respond(p, "invalid_transition", <<>>)]
    /\ UNCHANGED <<audit_log, now>>

\* changed_by=AnonymousUser: the history row cannot be built (ValueError)
RaiseValueError(p) ==
    /\ req' = [req EXCEPT ![p] = Respond(p, "server_error", <<>>)]
    /\ UNCHANGED <<audit_log, now>>

\* with transaction.atomic(): the history row is built with created_at = now
EnterTransaction(p) ==
    /\ req' = [req EXCEPT ![p].pc = "in_tx", ![p].created_at = now]
    /\ now' = now + 1
    /\ UNCHANGED audit_log

Decided(p, decision) ==
    CASE decision = "unchanged" -> ReturnUnchanged(p)
      [] decision = "invalid" -> RaiseValidationError(p)
      [] decision = "write" /\ req[p].actor = "anonymous" -> RaiseValueError(p)
      [] OTHER -> EnterTransaction(p)

ChangeStatusEnter(p) ==
    /\ req[p].pc = "loaded"
    /\ Decided(p, change_status_decision(req[p].app_status, req[p].new_status))
    /\ UNCHANGED <<status, submitted_at, answers, history, calls, formVars>>

HistoryRow(p) ==
    [old_status |-> req[p].app_status, new_status |-> req[p].new_status,
     changed_by |-> req[p].actor, created_at |-> req[p].created_at]

\* the transaction of change_status commits: the history row, the status,
\* submitted_at and the audit row together, then the audit row of the view
ChangeStatusCommit(p) ==
    /\ req[p].pc = "in_tx"
    /\ history' = Append(history, HistoryRow(p))
    /\ status' = req[p].new_status
    /\ submitted_at' = IF req[p].new_status = "submitted" THEN now
                       ELSE req[p].app_submitted_at
    /\ audit_log' = Audit(Audit(audit_log, "status_change"), ViewAudit(p))
    /\ req' = [req EXCEPT ![p] = Respond(p, "changed", <<>>)]
    /\ UNCHANGED <<answers, now, calls, formVars>>

\* A failure that keeps the history row already inserted
ChangeStatusAbortKeepingRow(p) ==
    /\ req[p].pc = "in_tx"
    /\ req' = [req EXCEPT ![p] = Respond(p, "server_error", <<>>)]
    /\ history' = Append(history, HistoryRow(p))
    /\ UNCHANGED <<status, submitted_at, answers, audit_log, now, calls, formVars>>

\* the transaction fails (the database is locked or gone): atomic() rolls
\* every write of the block back and the error leaves the view
ChangeStatusAbort(p) ==
    /\ req[p].pc = "in_tx"
    /\ req' = [req EXCEPT ![p] = Respond(p, "server_error", <<>>)]
    /\ UNCHANGED <<status, submitted_at, answers, history, audit_log, now, calls,
                   formVars>>

StatusPatch == \E p \in Procs, s \in RequestedStatuses : StatusPatchLoad(p, s)
Submit == \E p \in Procs, a \in SubmitActors, items \in SubmitPatches :
              SubmitLoad(p, a, items)
Enter == \E p \in Procs : ChangeStatusEnter(p)
Commit == \E p \in Procs : ChangeStatusCommit(p)
Abort == \E p \in Procs : ChangeStatusAbort(p)

Next == StatusPatch \/ Submit \/ Enter \/ Commit \/ Abort
Spec == Init /\ [][Next]_vars

\* One request at a time: a request starts only when no other is being served
AllIdle == \A p \in Procs : Idle(p)
NextSeq == (AllIdle /\ StatusPatch) \/ (AllIdle /\ Submit) \/ Enter \/ Commit \/ Abort
SpecSeq == Init /\ [][NextSeq]_vars

\* ------------------------------------------------------------------------
\* Django admin: the change form of ApplicationAdmin
\* ------------------------------------------------------------------------
\* save_model: the form has set obj.status to the posted choice; the step and
\* stage are filled in and the whole row is saved
AdminSaveModel(new_status) ==
    /\ calls < MaxCalls
    /\ calls' = calls + 1
    /\ status' = new_status
    /\ current_step' = IF current_step = NoStep THEN Steps[1].code ELSE current_step
    /\ current_stage' = StepOrder(Steps, current_step')
    /\ UNCHANGED <<submitted_at, applicant_type, answers, history, audit_log,
                   documents, requirements, now, req, evaluation, answer_rows,
                   magic_token, account>>

AdminSave == \E s \in Statuses : AdminSaveModel(s)
NextAdmin == StatusPatch \/ Submit \/ Enter \/ Commit \/ Abort \/ AdminSave
SpecAdmin == Init /\ [][NextAdmin]_vars

\* ------------------------------------------------------------------------
\* Documents of the application and the requirement check
\* ------------------------------------------------------------------------
\* settings.DOCUMENTS_MAX_DOCUMENTS_PER_APPLICATION: read from the environment,
\* default 30; the model runs with a small limit so that the limit is reached
DOCUMENTS_MAX_DOCUMENTS_PER_APPLICATION == 2

ActiveDocuments(docs) == {i \in 1..Len(docs) : ~docs[i].is_archived}

\* request_upload with document=None: a new document and its first version
RequestUploadNew(requirement) ==
    /\ calls < MaxCalls
    /\ calls' = calls + 1
    /\ Cardinality(ActiveDocuments(documents)) < DOCUMENTS_MAX_DOCUMENTS_PER_APPLICATION
    /\ documents' = Append(documents,
           Doc(requirement, IF requirement = NoRequirement THEN "" ELSE requirement,
               FALSE, <<"pending">>))
    /\ UNCHANGED <<status, submitted_at, current_step, applicant_type, answers,
                   history, audit_log, requirements, now, req,
                   evaluation, answer_rows, sessionVars>>

\* request_upload with a document: the next version of it
RequestUploadVersion(i) ==
    /\ calls < MaxCalls
    /\ calls' = calls + 1
    /\ documents' = [documents EXCEPT ![i].versions = Append(@, "pending")]
    /\ UNCHANGED <<status, submitted_at, current_step, applicant_type, answers,
                   history, audit_log, requirements, now, req,
                   evaluation, answer_rows, sessionVars>>

\* complete_upload, then mark_version_available unless mark_available=False
CompleteUpload(i, j, mark_available) ==
    /\ calls < MaxCalls
    /\ calls' = calls + 1
    /\ documents' = [documents EXCEPT ![i].versions[j] =
                        IF mark_available THEN "available" ELSE "uploaded"]
    /\ UNCHANGED <<status, submitted_at, current_step, applicant_type, answers,
                   history, audit_log, requirements, now, req,
                   evaluation, answer_rows, sessionVars>>

\* delete_document / archive_document
ArchiveDocument(i) ==
    /\ calls < MaxCalls
    /\ calls' = calls + 1
    /\ ~documents[i].is_archived
    /\ documents' = [documents EXCEPT ![i].is_archived = TRUE]
    /\ UNCHANGED <<status, submitted_at, current_step, applicant_type, answers,
                   history, audit_log, requirements, now, req,
                   evaluation, answer_rows, sessionVars>>

\* a call of validate_documents(application, build_answer_dict(application))
Checked(p, found) ==
    [NoRequest EXCEPT !.pc = "done", !.op = "validate_documents",
                      !.result = IF IsExc(found) THEN found.v ELSE "returned",
                      !.errors = IF IsExc(found) THEN <<>> ELSE found.v]
ValidateDocuments(p) ==
    /\ Idle(p)
    /\ calls < MaxCalls
    /\ calls' = calls + 1
    /\ req' = [req EXCEPT ![p] =
                 Checked(p, validate_documents(requirements, applicant_type,
                                               documents, answers))]
    /\ UNCHANGED <<status, submitted_at, current_step, applicant_type, answers,
                   history, audit_log, documents, requirements, now,
                   evaluation, answer_rows, sessionVars>>

\* Requirement sets a survey may be loaded with: none; the default ones; a
\* literal true and the age of the applicant; one code entered twice (the
\* table has no uniqueness constraint on the code)
RequirementSets ==
    { <<>>,
      DefaultRequirements,
      << Requirement("passport", B(TRUE)),
         Requirement("parent_consent", Op("<", Var("age"), N(18))) >>,
      << Requirement("passport", Null),
         Requirement("passport", Null) >> }
RequirementCodes == {"passport", "birth_certificate", "parent_consent"}

InitDocs ==
    /\ status = "draft"
    /\ submitted_at = 0
    /\ \E form \in InitialForms :
          /\ current_step = form.current_step
          /\ applicant_type = form.applicant_type
          /\ answers = form.answers
          /\ documents = form.documents
    /\ requirements \in RequirementSets
    /\ history = <<>>
    /\ audit_log = [action \in {"status_change", "submit"} |-> 0]
    /\ now = 1
    /\ req = [p \in Procs |-> NoRequest]
    /\ calls = 0
    /\ evaluation = NoEvaluation
    /\ answer_rows = <<>>
    /\ current_stage = StepOrder(Steps, current_step)
    /\ magic_token = NoToken
    /\ account = NoUser

UploadNew == \E r \in RequirementCodes \cup {NoRequirement} : RequestUploadNew(r)
UploadVersion == \E i \in 1..Len(documents) : RequestUploadVersion(i)
Complete == \E i \in 1..Len(documents) : \E j \in 1..Len(documents[i].versions) :
                \E mark_available \in BOOLEAN : CompleteUpload(i, j, mark_available)
Archive == \E i \in 1..Len(documents) : ArchiveDocument(i)
Validate == \E p \in Procs : ValidateDocuments(p)

NextDocs == UploadNew \/ UploadVersion \/ Complete \/ Archive \/ Validate
SpecDocs == InitDocs /\ [][NextDocs]_vars

\* ------------------------------------------------------------------------
\* The form runtime called on a stored application
\* ------------------------------------------------------------------------
\* a question left unanswered has no Answer row
Absent == [k |-> "absent", v |-> 0]
AnswerMap(choice) ==
    [code \in {c \in DOMAIN choice : choice[c] # Absent} |-> choice[code]]
\* build_answer_dict(application) of the applications examined
FormAnswers ==
    { AnswerMap(choice) : choice \in
        [ q_agree : {Absent, B(TRUE), B(FALSE)},
          q_who_fills : {Absent, S("self"), S("parent")},
          q_dob : {Absent, S("2015-06-15")},
          q_guardian_name : {Absent, S(""), S("Anna")},
          q_children_count : {Absent, N(0), N(2)},
          q_children_names : {Absent, S("Ira")} ] }

\* Surveys next_step is asked about: one without steps; steps intro and basic
\* with the consent gate; the survey above; one whose ids do not follow the
\* step order, with two conditions leaving intro, a condition without target
\* and a redirect back to the start
EmptySurvey == Survey(<<>>, <<>>)
ConsentSurvey ==
    Survey(<< [id |-> 1, code |-> "intro", order |-> 1],
              [id |-> 2, code |-> "basic", order |-> 2] >>,
           << [id |-> 1, scope |-> "step", question |-> 0, from_step |-> "intro",
               goto_step |-> "basic",
               expression |-> Op("==", Var("q_agree"), B(TRUE))] >>)
DefaultSurvey == Survey(Steps, Conditions)
BranchingSurvey ==
    Survey(<< [id |-> 1, code |-> "extra", order |-> 3],
              [id |-> 2, code |-> "intro", order |-> 1],
              [id |-> 3, code |-> "basic", order |-> 2],
              [id |-> 4, code |-> "final", order |-> 3] >>,
           << [id |-> 1, scope |-> "step", question |-> 0, from_step |-> "intro",
               goto_step |-> "extra",
               expression |-> Op("==", Var("q_who_fills"), S("self"))],
              [id |-> 2, scope |-> "step", question |-> 0, from_step |-> "intro",
               goto_step |-> "basic",
               expression |-> Op("==", Var("q_agree"), B(TRUE))],
              [id |-> 3, scope |-> "step", question |-> 0, from_step |-> "basic",
               goto_step |-> NoStep,
               expression |-> Op("==", Var("q_agree"), B(FALSE))],
              [id |-> 4, scope |-> "step", question |-> 0, from_step |-> "extra",
               goto_step |-> "intro",
               expression |-> Op(">", Var("q_children_count"), N(0))] >>)
NavSurveys == {EmptySurvey, ConsentSurvey, DefaultSurvey, BranchingSurvey}
NavSteps == {"intro", "basic", "extra", "final"}

\* Expressions eval_expr is asked about
FormExpressions ==
    { Null, B(TRUE), B(FALSE), N(0), S(""),
      L(<<B(TRUE), B(FALSE)>>),
      Op("==", N(1), B(TRUE)),
      Op("<", N(1), N(2)),
      Op("<", Null, N(1)),
      Op("in", S("self"), L(<<S("self"), S("parent")>>)),
      D(<<<<"not", Op("!=", S("self"), S("self"))>>>>),
      D(<<<<"any", L(<<B(FALSE), Op(">=", N(2), N(2))>>)>>>>),
      S("$q_agree"),
      Op("==", S("$q_agree"), B(TRUE)),
      Var("q_agree"),
      Op(">", Var("q_children_count"), N(0)),
      D(<<<<"all", L(<<Var("q_agree"), Op("==", Var("q_who_fills"), S("parent"))>>)>>>>),
      Op("between", N(1), N(2)),
      D(<<<<"min", N(1)>>, <<"max", N(2)>>>>) }

\* one call per stored application: the functions are pure, a second call
\* sees what the first one saw
Evaluation(fn, arg, out) == [fn |-> fn, arg |-> arg, out |-> out]

InitForm ==
    /\ status = "draft"
    /\ submitted_at = 0
    /\ current_step = NoStep
    /\ applicant_type = ""
    /\ answers \in FormAnswers
    /\ documents = <<>>
    /\ requirements \in RequirementSets
    /\ history = <<>>
    /\ audit_log = [action \in {"status_change", "submit"} |-> 0]
    /\ now = 1
    /\ req = [p \in Procs |-> NoRequest]
    /\ calls = 0
    /\ evaluation = NoEvaluation
    /\ answer_rows = <<>>
    /\ current_stage = StepOrder(Steps, current_step)
    /\ magic_token = NoToken
    /\ account = NoUser

formState == <<status, submitted_at, current_step, applicant_type, answers, history,
               audit_log, documents, requirements, now, req, calls, answer_rows, sessionVars>>

CallEvalExpr(expr) ==
    /\ evaluation = NoEvaluation
    /\ evaluation' = Evaluation("eval_expr", <<expr>>, eval_expr(expr, answers))
    /\ UNCHANGED formState
CallVisibleQuestions(step) ==
    /\ evaluation = NoEvaluation
    /\ evaluation' = Evaluation("visible_questions", <<step>>,
                                visible_questions(step, answers))
    /\ UNCHANGED formState
CallValidateRequired(step) ==
    /\ evaluation = NoEvaluation
    /\ evaluation' = Evaluation("validate_required", <<step>>,
                                validate_required(step, answers))
    /\ UNCHANGED formState
CallNextStep(survey, current) ==
    /\ evaluation = NoEvaluation
    /\ evaluation' = Evaluation("next_step", <<survey, current>>,
                                next_step(survey, current, answers))
    /\ UNCHANGED formState
CallValidateDocuments ==
    /\ evaluation = NoEvaluation
    /\ evaluation' = Evaluation("validate_documents", <<>>,
                                validate_documents(requirements, applicant_type,
                                                   documents, answers))
    /\ UNCHANGED formState

EvalExpr == \E expr \in FormExpressions : CallEvalExpr(expr)
Visible == \E step \in StepCodes : CallVisibleQuestions(step)
Required == \E step \in StepCodes : CallValidateRequired(step)
Navigate == \E survey \in NavSurveys, current \in NavSteps \cup {NoStep} :
                CallNextStep(survey, current)

NextForm == EvalExpr \/ Visible \/ Required \/ Navigate \/ CallValidateDocuments
SpecForm == InitForm /\ [][NextForm]_vars

\* ------------------------------------------------------------------------
\* validate_answer_value called on a raw value, and again on what it returned
\* ------------------------------------------------------------------------
\* One question of every type validate_answer_value tells apart
TypedQuestion(code, type, payload) ==
    [id |-> 0, step |-> "extra", code |-> code, type |-> type, required |-> FALSE,
     payload |-> payload]
TypedQuestions ==
    Range(Questions) \cup
    { TypedQuestion("q_comment", "textarea", NoPayload),
      TypedQuestion("q_email", "email", NoPayload),
      TypedQuestion("q_phone", "phone", NoPayload),
      TypedQuestion("q_has_guardian", "boolean", NoPayload),
      TypedQuestion("q_who_fills", "select", NoPayload),
      TypedQuestion("q_needs", "multiselect", NoPayload),
      TypedQuestion("q_needs", "select_many", NoPayload),
      TypedQuestion("q_photo", "file", NoPayload),
      TypedQuestion("q_scans", "file_multi", NoPayload),
      TypedQuestion("q_birth", "date", D(<<<<"constraints", Null>>>>)) }

\* Raw values as a JSON body or a chat message can carry them
RawValues ==
    { Null, S(""), S("   "), S(" parent "), S("parent"), S("self"), S("care"),
      S("yes"), S("off"), S("abc"),
      B(TRUE), B(FALSE), N(0), N(5), S("5"), S(" 12 "),
      S("2015-06-15"), S("2015-6-15"), S("15.06.2015"), S("2030-01-01"),
      S("a@b.ru"), S(" a@b.ru "), S("a@b"), S("a b@c.ru"),
      S("+79991234567"), S("89991234567"),
      L(<<>>), L(<<S("care"), S("wheelchair"), S("care")>>), L(<<S("abc")>>),
      L(<<N(5)>>), D(<<>>) }

InitValidate ==
    /\ status = "draft"
    /\ submitted_at = 0
    /\ current_step = NoStep
    /\ applicant_type = ""
    /\ answers = NoAnswers
    /\ documents = <<>>
    /\ requirements = <<>>
    /\ history = <<>>
    /\ audit_log = [action \in {"status_change", "submit"} |-> 0]
    /\ now = 1
    /\ req = [p \in Procs |-> NoRequest]
    /\ calls = 0
    /\ evaluation = NoEvaluation
    /\ answer_rows = <<>>
    /\ current_stage = StepOrder(Steps, current_step)
    /\ magic_token = NoToken
    /\ account = NoUser

CallValidateAnswer(question, raw) ==
    /\ evaluation = NoEvaluation
    /\ evaluation' = Evaluation("validate_answer_value", <<question, raw>>,
                                validate_answer_value(question, raw))
    /\ UNCHANGED formState
\* the normalized value handed to validate_answer_value for the same question
Revalidate ==
    /\ evaluation.fn = "validate_answer_value"
    /\ evaluation.out.error = ""
    /\ evaluation' = Evaluation("revalidate",
                                <<evaluation.arg[1], evaluation.out.value>>,
                                validate_answer_value(evaluation.arg[1],
                                                      evaluation.out.value))
    /\ UNCHANGED formState
ValidateAnswer == \E question \in TypedQuestions, raw \in RawValues :
                      CallValidateAnswer(question, raw)

NextValidate == ValidateAnswer \/ Revalidate
SpecValidate == InitValidate /\ [][NextValidate]_vars

\* ------------------------------------------------------------------------
\* Answer writes: patch_draft and the chat's _save_answer on one application,
\* served by concurrent workers
\* ------------------------------------------------------------------------
\* the Application row is gone (handle_consent_decline deleted it)
NoApplication == "deleted"
CONSENT_QUESTION_CODE == "q_agree"

AnswerRow(code, value) == [question |-> code, value |-> value]
\* Answer.objects.filter(application=application, question=question)
RowsFor(rows, code) == SelectSeq(rows, LAMBDA row : row.question = code)
\* obj.value = value; obj.save()
UpdateRow(rows, code, value) ==
    [i \in 1..Len(rows) |->
        IF rows[i].question = code THEN AnswerRow(code, value) ELSE rows[i]]
\* a table that accepts a second row of the pair
NoUniqueConstraint(rows, code) == FALSE
\* Answer.Meta.unique_together: the INSERT of a second row of the pair is
\* an IntegrityError
unique_together(rows, code) == Len(RowsFor(rows, code)) > 0

\* to_update of _apply_answer_patch: question and normalized value, in order
ToUpdate(items) ==
    [i \in 1..Len(items) |->
        AnswerRow(items[i].question_code,
                  validate_answer_value(QuestionByCode(items[i].question_code),
                                        items[i].value).value)]
\* question.code == CONSENT_QUESTION_CODE and normalized is False
DeclinesConsent(question, raw) ==
    /\ question.code = CONSENT_QUESTION_CODE
    /\ validate_answer_value(question, raw) = Accepted(B(FALSE))
\* the loop of _apply_answer_patch reaches an item that declines the consent
PatchDeclinesConsent(items) ==
    \E i \in 1..Len(items) :
        /\ items[i].question_code \in QuestionCodes
        /\ DeclinesConsent(QuestionByCode(items[i].question_code), items[i].value)

\* request bodies of PATCH /draft
AnswerPatches ==
    { << Item("q_who_fills", S("self")) >>,
      << Item("q_who_fills", S("parent")),
         Item("q_guardian_name", S(" parent ")) >>,
      << Item("q_guardian_name", S("abc")),
         Item("q_guardian_name", S(" parent ")) >>,
      << Item("q_who_fills", S("abc")) >>,
      << Item("q_who_fills", S("self")), Item("q_agree", B(FALSE)) >>,
      << Item("q_who_fills", S("abc")), Item("q_agree", B(FALSE)) >>,
      << Item("q_unknown", S("abc")), Item("q_who_fills", S("parent")) >>,
      << Item("q_unknown", S("abc")), Item("q_agree", S("off")) >> }
\* answers a chat message can carry: the active question and the text
ChatAnswers ==
    { <<"q_who_fills", S("parent")>>, <<"q_guardian_name", S("abc")>>,
      <<"q_agree", S("off")>> }

\* a worker between requests, with the outcome of its last one
Waiting(result, retried) ==
    [pc |-> "idle", op |-> "none", items |-> <<>>, todo |-> <<>>,
     phase |-> "items", repeat |-> FALSE, retried |-> retried, result |-> result]
\* a worker about to run update_or_create for the head of todo
WriteRequest(op, items, todo, repeat) ==
    [pc |-> "get", op |-> op, items |-> items, todo |-> todo,
     phase |-> "items", repeat |-> repeat, retried |-> FALSE, result |-> "none"]
\* the last request completed was patch_draft with these items; no other
\* worker wrote while it ran, and nothing has written since
LastPatchWas(items) ==
    evaluation.fn = "patch_draft" /\ evaluation.arg[1] = items
\* worker p applies that patch a second time, and no other worker has
\* written since the first application began
AppliesAgain(p) ==
    /\ req[p].repeat
    /\ LastPatchWas(req[p].items)
    /\ evaluation.arg[2] \in {"none", p}
\* every write made so far by the request of worker p came with no write of
\* another worker in between
WritingAlone(p) == Evaluation("update_or_create", <<p>>, B(TRUE))

InitAnswers ==
    /\ status = "draft"
    /\ submitted_at = 0
    /\ current_step = NoStep
    /\ applicant_type = ""
    /\ answers = NoAnswers
    /\ documents = <<>>
    /\ requirements = <<>>
    /\ history = <<>>
    /\ audit_log = [action \in {"status_change", "submit"} |-> 0]
    /\ now = 1
    /\ req = [p \in Procs |-> Waiting("none", FALSE)]
    /\ calls = 0
    /\ evaluation = NoEvaluation
    /\ answer_rows = <<>>
    /\ current_stage = StepOrder(Steps, current_step)
    /\ magic_token = NoToken
    /\ account = NoUser

answerFrame == <<submitted_at, current_step, applicant_type, answers,
                 audit_log, documents, requirements, now, current_stage, magic_token>>

\* the user row of the application: its role, and whether the user has
\* another application
UserRow(role, other_applications) ==
    [exists |-> TRUE, role |-> role, other_applications |-> other_applications]
\* handle_consent_decline deletes the user: there is one, no other
\* application of theirs is left, and their role is Role.APPLICANT
DeletesAnyUser(user) == user.exists
DeletesUser(user) ==
    /\ user.exists
    /\ ~user.other_applications
    /\ user.role = "applicant"

\* handle_consent_decline: the application and, by cascade, its answers and
\* its status history go, then the user when DeletesUser says so
ConsentDeclined(p) ==
    /\ status' = NoApplication
    /\ answer_rows' = <<>>
    /\ history' = <<>>
    /\ account' = IF DeletesUser(account) THEN NoUser ELSE account
    /\ evaluation' = NoEvaluation
    /\ req' = [req EXCEPT ![p] = Waiting("consent_declined", FALSE)]
\* a response that wrote nothing
Refused(p, result) ==
    /\ req' = [req EXCEPT ![p] = Waiting(result, FALSE)]
    /\ UNCHANGED <<status, answer_rows, evaluation, history, account>>

\* patch_draft up to the end of the validation loop of _apply_answer_patch
StartPatch(p, items) ==
    /\ req[p].pc = "idle"
    /\ calls < MaxCalls
    /\ calls' = calls + 1
    /\ IF status = NoApplication THEN Refused(p, "not_found")
       ELSE IF PatchDeclinesConsent(items) THEN ConsentDeclined(p)
       ELSE IF Len(PatchErrors(items)) > 0 THEN Refused(p, "errors")
       ELSE /\ req' = [req EXCEPT ![p] =
                          WriteRequest("patch_draft", items, ToUpdate(items),
                                       LastPatchWas(items))]
            /\ UNCHANGED <<status, answer_rows, evaluation, history, account>>
    /\ UNCHANGED answerFrame

\* handle_text up to _save_answer: the answer validated, the consent checked
StartChat(p, code, raw) ==
    /\ req[p].pc = "idle"
    /\ calls < MaxCalls
    /\ calls' = calls + 1
    /\ IF status = NoApplication THEN Refused(p, "not_found")
       ELSE IF validate_answer_value(QuestionByCode(code), raw).error # ""
       THEN Refused(p, "errors")
       ELSE IF DeclinesConsent(QuestionByCode(code), raw) THEN ConsentDeclined(p)
       ELSE /\ req' = [req EXCEPT ![p] =
                          WriteRequest("save_answer", <<>>,
                              << AnswerRow(code,
                                     validate_answer_value(QuestionByCode(code),
                                                           raw).value) >>,
                              FALSE)]
            /\ UNCHANGED <<status, answer_rows, evaluation, history, account>>
    /\ UNCHANGED answerFrame

\* the row of the pair is written: the next item of to_update is due
Written(p, rows, retried) ==
    /\ answer_rows' = rows
    /\ req' = [req EXCEPT ![p].pc = "get", ![p].todo = Tail(req[p].todo),
                          ![p].retried = req[p].retried \/ retried]
    /\ evaluation' =
           IF AppliesAgain(p) THEN [evaluation EXCEPT !.arg = <<req[p].items, p>>]
           ELSE Evaluation("update_or_create", <<p>>,
                           B(\/ evaluation = WritingAlone(p)
                             \/ /\ req[p].phase = "items"
                                /\ Len(req[p].todo) = Len(ToUpdate(req[p].items))))
\* the request ends in an unhandled exception
Failed(p) ==
    /\ req' = [req EXCEPT ![p] = Waiting("error", req[p].retried)]
    /\ UNCHANGED <<answer_rows, evaluation>>

\* update_or_create: select_for_update().get(), and the save of the row found
GetOrUpdate(p) ==
    /\ req[p].pc = "get"
    /\ Len(req[p].todo) > 0
    /\ IF Len(RowsFor(answer_rows, Head(req[p].todo).question)) > 1
       THEN Failed(p)
       ELSE IF Len(RowsFor(answer_rows, Head(req[p].todo).question)) = 1
       THEN Written(p, UpdateRow(answer_rows, Head(req[p].todo).question,
                                 Head(req[p].todo).value), FALSE)
       ELSE /\ req' = [req EXCEPT ![p].pc = "create"]
            /\ UNCHANGED <<answer_rows, evaluation>>
    /\ UNCHANGED <<status, calls, history, account>>
    /\ UNCHANGED answerFrame

\* update_or_create after DoesNotExist: create(), and on IntegrityError the
\* second get() and the save of the row another worker inserted
CreateOrRetry(p) ==
    /\ req[p].pc = "create"
    /\ IF status = NoApplication THEN Failed(p)
       ELSE IF unique_together(answer_rows, Head(req[p].todo).question)
       THEN Written(p, UpdateRow(answer_rows, Head(req[p].todo).question,
                                 Head(req[p].todo).value), TRUE)
       ELSE Written(p, Append(answer_rows, Head(req[p].todo)), FALSE)
    /\ UNCHANGED <<status, calls, history, account>>
    /\ UNCHANGED answerFrame

\* _ensure_default_answers finds no answer to an auto-filled date question
DefaultDue(p) ==
    /\ req[p].op = "patch_draft"
    /\ req[p].phase = "items"
    /\ \E code \in AUTO_FILL_DATE_CODES \cap QuestionCodes :
           Len(RowsFor(answer_rows, code)) = 0
\* the end of the update loop: _ensure_default_answers, then the response
Finish(p) ==
    /\ req[p].pc = "get"
    /\ Len(req[p].todo) = 0
    /\ IF DefaultDue(p)
       THEN /\ req' = [req EXCEPT
                          ![p].todo =
                              << AnswerRow(
                                     CHOOSE code \in AUTO_FILL_DATE_CODES \cap QuestionCodes :
                                         Len(RowsFor(answer_rows, code)) = 0,
                                     S(IsoFormat(Today))) >>,
                          ![p].phase = "defaults"]
            /\ UNCHANGED evaluation
       ELSE /\ req' = [req EXCEPT ![p] = Waiting("ok", req[p].retried)]
            /\ evaluation' =
                   IF req[p].op # "patch_draft" THEN evaluation
                   ELSE IF AppliesAgain(p)
                   THEN [evaluation EXCEPT !.arg = <<req[p].items, "none">>]
                   ELSE IF evaluation = WritingAlone(p)
                   THEN Evaluation("patch_draft", <<req[p].items, "none">>, answer_rows)
                   ELSE NoEvaluation
    /\ UNCHANGED <<status, calls, answer_rows, history, account>>
    /\ UNCHANGED answerFrame

PatchDraft == \E p \in Procs, items \in AnswerPatches : StartPatch(p, items)
SaveAnswer == \E p \in Procs, answer \in ChatAnswers : StartChat(p, answer[1], answer[2])
UpdateOrCreate == \E p \in Procs : GetOrUpdate(p) \/ CreateOrRetry(p)
EndOfRequest == \E p \in Procs : Finish(p)

NextAnswers == PatchDraft \/ SaveAnswer \/ UpdateOrCreate \/ EndOfRequest
SpecAnswers == InitAnswers /\ [][NextAnswers]_vars

\* the users an application can belong to: none (an anonymous session), an
\* applicant with and without another application, an employee
Accounts ==
    { NoUser, UserRow("applicant", FALSE), UserRow("applicant", TRUE),
      UserRow("employee", FALSE) }
\* applications with answers stored, in Draft or Submitted with the history
\* row of the submission, of each kind of user
InitConsent ==
    /\ status \in {"draft", "submitted"}
    /\ submitted_at = IF status = "submitted" THEN 1 ELSE 0
    /\ current_step = NoStep
    /\ applicant_type = ""
    /\ answers = NoAnswers
    /\ documents = <<>>
    /\ requirements = <<>>
    /\ history = IF status = "submitted"
                 THEN << [old_status |-> "draft", new_status |-> "submitted",
                          changed_by |-> "applicant", created_at |-> 1] >>
                 ELSE <<>>
    /\ audit_log = [action \in {"status_change", "submit"} |-> 0]
    /\ now = 1
    /\ req = [p \in Procs |-> Waiting("none", FALSE)]
    /\ calls = 0
    /\ evaluation = NoEvaluation
    /\ answer_rows = << AnswerRow("q_who_fills", S("parent")) >>
    /\ current_stage = StepOrder(Steps, current_step)
    /\ magic_token = NoToken
    /\ account \in Accounts
SpecConsent == InitConsent /\ [][NextAnswers]_vars

\* ------------------------------------------------------------------------
\* request_upload served by concurrent workers
\* ------------------------------------------------------------------------
\* the file of an upload request: MIME type, extension, size
UploadFile(content_type, extension, oversized) ==
    [content_type |-> content_type, extension |-> extension, oversized |-> oversized]
UploadFiles ==
    { UploadFile("application/pdf", "pdf", FALSE),
      UploadFile("application/octet-stream", "pdf", FALSE),
      UploadFile("application/pdf", "exe", FALSE),
      UploadFile("application/pdf", "pdf", TRUE) }
DOCUMENTS_DEFAULT_ALLOWED_CONTENT_TYPES ==
    { "application/pdf", "image/jpeg", "image/png", "image/jpg", "image/gif",
      "image/bmp", "application/msword",
      "application/vnd.openxmlformats-officedocument.wordprocessingml.document",
      "application/vnd.ms-excel",
      "application/vnd.openxmlformats-officedocument.spreadsheetml.sheet",
      "text/plain" }
DOCUMENTS_DEFAULT_ALLOWED_EXTENSIONS ==
    {"pdf", "jpg", "jpeg", "png", "gif", "bmp", "doc", "docx", "xls", "xlsx", "txt"}

\* the checks of request_upload made before the transaction: the field of
\* the ValidationError, or "" when the file passes
FileError(file) ==
    IF file.content_type \notin DOCUMENTS_DEFAULT_ALLOWED_CONTENT_TYPES THEN "content_type"
    ELSE IF file.extension = "" \/ file.extension \notin DOCUMENTS_DEFAULT_ALLOWED_EXTENSIONS
    THEN "filename"
    ELSE IF file.oversized THEN "size"
    ELSE ""

\* a worker between upload requests, with the outcome of its last one
NoUpload(result) == [pc |-> "idle", requirement |-> NoRequirement, result |-> result]
\* a worker inside the transaction of request_upload, the count checked
Counted(requirement) == [pc |-> "create", requirement |-> requirement, result |-> "none"]

InitUploads ==
    /\ status = "draft"
    /\ submitted_at = 0
    /\ current_step = NoStep
    /\ applicant_type = ""
    /\ answers = NoAnswers
    /\ documents = <<>>
    /\ requirements = DefaultRequirements
    /\ history = <<>>
    /\ audit_log = [action \in {"status_change", "submit"} |-> 0]
    /\ now = 1
    /\ req = [p \in Procs |-> NoUpload("none")]
    /\ calls = 0
    /\ evaluation = NoEvaluation
    /\ answer_rows = <<>>
    /\ current_stage = StepOrder(Steps, current_step)
    /\ magic_token = NoToken
    /\ account = NoUser

uploadFrame == <<status, submitted_at, current_step, applicant_type, answers, history,
                 audit_log, requirements, now, evaluation, answer_rows, sessionVars>>

\* request_upload(document=None) up to the count of the active documents.
\* The count is an aggregate query: it takes no row lock, and no row lock
\* would cover a document another transaction has yet to insert.
CountActiveDocuments(p, requirement, file) ==
    /\ req[p].pc = "idle"
    /\ calls < MaxCalls
    /\ calls' = calls + 1
    /\ req' = [req EXCEPT ![p] =
                 IF FileError(file) # "" THEN NoUpload(FileError(file))
                 ELSE IF Cardinality(ActiveDocuments(documents))
                             >= DOCUMENTS_MAX_DOCUMENTS_PER_APPLICATION
                 THEN NoUpload("documents")
                 ELSE Counted(requirement)]
    /\ UNCHANGED documents
    /\ UNCHANGED uploadFrame

\* the rest of the transaction: the document, its first version, the commit
CreateDocument(p) ==
    /\ req[p].pc = "create"
    /\ documents' = Append(documents,
           Doc(req[p].requirement,
               IF req[p].requirement = NoRequirement THEN "" ELSE req[p].requirement,
               FALSE, <<"pending">>))
    /\ req' = [req EXCEPT ![p] = NoUpload("created")]
    /\ UNCHANGED calls
    /\ UNCHANGED uploadFrame

\* delete_document / archive_document between the uploads
ArchiveBetweenUploads(i) ==
    /\ calls < MaxCalls
    /\ calls' = calls + 1
    /\ ~documents[i].is_archived
    /\ documents' = [documents EXCEPT ![i].is_archived = TRUE]
    /\ UNCHANGED req
    /\ UNCHANGED uploadFrame

BeginUpload == \E p \in Procs, r \in {"passport", NoRequirement}, file \in UploadFiles :
                   CountActiveDocuments(p, r, file)
EndUpload == \E p \in Procs : CreateDocument(p)
ArchiveOne == \E i \in 1..Len(documents) : ArchiveBetweenUploads(i)

NextUploads == BeginUpload \/ EndUpload \/ ArchiveOne
SpecUploads == InitUploads /\ [][NextUploads]_vars

\* ------------------------------------------------------------------------
\* Magic-link login: redeem_magic_link served by concurrent workers
\* ------------------------------------------------------------------------
MaxClock == 4
\* the raw tokens a login request can carry: none, the one issued, another
RawTokens == {"", "issued", "unknown"}
\* a worker between logins, with what its last redeem returned
NoLogin(result) == [pc |-> "idle", result |-> result]
\* a worker that holds the token verify() returned
Verified == [pc |-> "verified", result |-> "none"]

\* one token issued at time 1 that expires at time 3; used_at 0 is NULL
InitMagic ==
    /\ status = "draft"
    /\ submitted_at = 0
    /\ current_step = NoStep
    /\ applicant_type = ""
    /\ answers = NoAnswers
    /\ documents = <<>>
    /\ requirements = <<>>
    /\ history = <<>>
    /\ audit_log = [action \in {"status_change", "submit"} |-> 0]
    /\ now = 1
    /\ req = [p \in Procs |-> NoLogin("none")]
    /\ calls = 0
    /\ evaluation = NoEvaluation
    /\ answer_rows = <<>>
    /\ current_stage = StepOrder(Steps, current_step)
    /\ magic_token = [expires_at |-> 3, used_at |-> 0]
    /\ account = UserRow("applicant", FALSE)

magicFrame == <<status, submitted_at, current_step, applicant_type, answers, history,
                audit_log, documents, requirements, evaluation, answer_rows,
                current_stage, account>>

\* MagicLinkTokenManager.verify: the token row, or None for an empty or
\* unknown raw token, a used token, an expired token
verify(raw_token, token, clock) ==
    /\ raw_token = "issued"
    /\ token.used_at = 0
    /\ ~(token.expires_at <= clock)

\* redeem_magic_link up to the return of verify
Verify(p, raw_token) ==
    /\ req[p].pc = "idle"
    /\ calls < MaxCalls
    /\ calls' = calls + 1
    /\ req' = [req EXCEPT ![p] = IF verify(raw_token, magic_token, now)
                                 THEN Verified ELSE NoLogin("None")]
    /\ UNCHANGED <<magic_token, now>>
    /\ UNCHANGED magicFrame

\* token.mark_used() and the return of token.user
MarkUsed(p) ==
    /\ req[p].pc = "verified"
    /\ magic_token' = [magic_token EXCEPT !.used_at = now]
    /\ req' = [req EXCEPT ![p] = NoLogin("user")]
    /\ UNCHANGED <<calls, now>>
    /\ UNCHANGED magicFrame

\* time passes
Tick ==
    /\ now < MaxClock
    /\ now' = now + 1
    /\ UNCHANGED <<magic_token, req, calls>>
    /\ UNCHANGED magicFrame

BeginRedeem == \E p \in Procs, raw_token \in RawTokens : Verify(p, raw_token)
EndRedeem == \E p \in Procs : MarkUsed(p)

NextMagic == BeginRedeem \/ EndRedeem \/ Tick
SpecMagic == InitMagic /\ [][NextMagic]_vars

\* ------------------------------------------------------------------------
\* The chat front-end (DefaultScenario) and the page operations that move the
\* current step, on one application
\* ------------------------------------------------------------------------
MaxMessages == 4

\* the survey of the chat: an optional comment, an auto-filled date, and step
\* conditions that send a self-filled form from intro to extra and back
ChatQuestions ==
    << [id |-> 11, step |-> "intro", code |-> "q_agree", type |-> "yes_no",
        required |-> TRUE, payload |-> NoPayload],
       [id |-> 12, step |-> "intro", code |-> "q_who_fills", type |-> "select_one",
        required |-> TRUE, payload |-> NoPayload],
       [id |-> 13, step |-> "basic", code |-> "q_comment", type |-> "text",
        required |-> FALSE, payload |-> NoPayload],
       [id |-> 14, step |-> "basic", code |-> "q_application_date", type |-> "date",
        required |-> FALSE, payload |-> NoPayload],
       [id |-> 15, step |-> "extra", code |-> "q_guardian_name", type |-> "text",
        required |-> TRUE, payload |-> NoPayload] >>
ChatConditions ==
    << [id |-> 4, scope |-> "step", question |-> 0, from_step |-> "intro",
        goto_step |-> "extra",
        expression |-> Op("==", Var("q_who_fills"), S("self"))],
       [id |-> 5, scope |-> "step", question |-> 0, from_step |-> "extra",
        goto_step |-> "intro",
        expression |-> Op("==", Var("q_who_fills"), S("self"))] >>
ChatSurvey == Survey(Steps, ChatConditions)
ChatQuestion(code) == CHOOSE q \in Range(ChatQuestions) : q.code = code
\* messages of the user
ChatTexts == {"yes", "no", "self", "parent", "abc", "skip"}

\* build_answer_dict: the stored values by question code
build_answer_dict(rows) ==
    [code \in {rows[i].question : i \in 1..Len(rows)} |->
        rows[CHOOSE i \in 1..Len(rows) : rows[i].question = code].value]
\* visible_questions of a step of the chat survey
ChatVisible(step, ctx) ==
    SortFound(VisibleAmong(SortByOrder(SelectSeq(ChatQuestions,
                                                 LAMBDA q : q.step = step)), ctx))
\* Answer.objects.update_or_create by one worker
SaveRow(rows, code, value) ==
    IF unique_together(rows, code) THEN UpdateRow(rows, code, value)
    ELSE Append(rows, AnswerRow(code, value))

\* the Cyrillic words of the source are written in Latin letters
_should_skip(text) == PyLower(text) \in {"propustit", "skip", "pozzhe"}
_is_answer_missing(value) == IsEmptyValue(value)
_map_boolean(text) ==
    IF PyLower(PyStrip(text)) \in {"da", "d", "yes", "y", "true", "1"} THEN B(TRUE)
    ELSE IF PyLower(PyStrip(text)) \in {"net", "n_", "no", "n", "false", "0"} THEN B(FALSE)
    ELSE Null
\* _prepare_freeform_input_sync: the value handed to the validator, or the
\* error replied
_prepare_freeform_input(question, text) ==
    IF question.type \in {"boolean", "yes_no"}
    THEN IF _map_boolean(text) = Null THEN Rejected("yes or no")
         ELSE Accepted(_map_boolean(text))
    ELSE IF question.type \in {"select", "select_one"}
    THEN IF question.code \in DOMAIN Options
            /\ PyLower(PyStrip(text)) \in Range(Options[question.code])
         THEN Accepted(S(PyLower(PyStrip(text))))
         ELSE Rejected("choose an option")
    ELSE IF question.type = "date"
    THEN IF text \in DOMAIN CharsOf /\ StrpDate(Chars(PyStrip(text))) # <<>>
         THEN Accepted(S(IsoFormat(StrpDate(Chars(PyStrip(text))))))
         ELSE Rejected("bad date")
    ELSE Accepted(S(text))
\* prepare, then validate_answer_value
ChatValue(question, text) ==
    IF _prepare_freeform_input(question, text).error # ""
    THEN _prepare_freeform_input(question, text)
    ELSE validate_answer_value(question, _prepare_freeform_input(question, text).value)

\* _auto_fill_question: the call writes today's date / returns True
AUTO_FILL_DATE_QUESTIONS == {"q_application_date"}
Hidden(question) ==
    /\ DictHas(question.payload, "hidden")
    /\ PyBool(DictGet(question.payload, "hidden"))
    /\ question.type \notin {"file", "file_multi"}
AutoFillsDate(question, ctx) ==
    /\ question.type = "date"
    /\ question.code \in AUTO_FILL_DATE_QUESTIONS
    /\ Hidden(question) \/ _is_answer_missing(CtxGet(ctx, question.code))
_auto_fill_question(question, ctx) ==
    \/ AutoFillsDate(question, ctx)
    \/ Hidden(question) /\ question.code \in DOMAIN ctx

\* the for loop of _resolve_active_question_sync over the visible questions
\* of one step: the first question whose answer is missing ("none" when all
\* are answered) and the rows after the dates filled in on the way
RECURSIVE ActiveAmong(_, _)
ActiveAmong(qs, rows) ==
    IF Len(qs) = 0 THEN [question |-> "none", rows |-> rows]
    ELSE IF AutoFillsDate(Head(qs), build_answer_dict(rows))
    THEN ActiveAmong(Tail(qs), SaveRow(rows, Head(qs).code, S(IsoFormat(Today))))
    ELSE IF _auto_fill_question(Head(qs), build_answer_dict(rows))
    THEN ActiveAmong(Tail(qs), rows)
    ELSE IF _is_answer_missing(CtxGet(build_answer_dict(rows), Head(qs).code))
    THEN [question |-> Head(qs).code, rows |-> rows]
    ELSE ActiveAmong(Tail(qs), rows)

\* the chat between messages, with the last prompt it sent
ChatIdle(prompt) ==
    [pc |-> "idle", op |-> "none", text |-> "", step |-> NoStep, seen |-> {},
     revisits |-> FALSE, skipped |-> "none", prompt |-> prompt]
\* the chat inside _resolve_active_question_sync at a step, called by
\* handle_text for the answer to a text or by _prompt_next_question
Resolving(op, text, step, skipped) ==
    [pc |-> "resolving", op |-> op, text |-> text, step |-> step, seen |-> {step},
     revisits |-> FALSE, skipped |-> skipped, prompt |-> "none"]

\* create_session / _ensure_application_sync: survey.steps.order_by(...).first()
FirstStep == next_step(ChatSurvey, NoStep, NoAnswers).v

InitChat ==
    /\ status = "draft"
    /\ submitted_at = 0
    /\ current_step = FirstStep
    /\ applicant_type = ""
    /\ answers = NoAnswers
    /\ documents = <<>>
    /\ requirements = <<>>
    /\ history = <<>>
    /\ audit_log = [action \in {"status_change", "submit"} |-> 0]
    /\ now = 1
    /\ req = ChatIdle("none")
    /\ calls = 0
    /\ evaluation = NoEvaluation
    /\ answer_rows = <<>>
    /\ current_stage = StepOrder(Steps, current_step)
    /\ magic_token = NoToken
    /\ account = UserRow("applicant", FALSE)

chatFrame == <<submitted_at, applicant_type, answers, documents, requirements,
               audit_log, now, evaluation, magic_token>>

\* _update_stage_from_step
KeepStage(stage, step) == stage
_update_stage_from_step(stage, step) == StepOrder(Steps, step)

\* _ensure_user_sync and _ensure_application_sync at the start of a handler:
\* the draft of the user, or a new application on the first step
EnsureApplication ==
    /\ account' = IF account.exists THEN account ELSE UserRow("applicant", FALSE)
    /\ status' = "draft"
    /\ history' = IF status = "draft" THEN history ELSE <<>>
\* the step _resolve_active_question_sync starts from, saved when the
\* application had none
StartStep(step) == IF step = NoStep THEN FirstStep ELSE step
BeginResolve(op, text, rows, step, written) ==
    /\ answer_rows' = rows
    /\ current_step' = StartStep(step)
    /\ current_stage' = IF written \/ step = NoStep
                        THEN StepOrder(Steps, StartStep(step))
                        ELSE current_stage
    /\ req' = Resolving(op, text, StartStep(step), "none")

\* handle_start: the greeting, then _prompt_next_question
HandleStart ==
    /\ req.pc = "idle"
    /\ calls < MaxMessages
    /\ calls' = calls + 1
    /\ EnsureApplication
    /\ IF status = "draft"
       THEN BeginResolve("prompt", "", answer_rows, current_step, FALSE)
       ELSE BeginResolve("prompt", "", <<>>, FirstStep, TRUE)
    /\ UNCHANGED chatFrame

\* handle_text up to the call of _resolve_active_question
HandleText(text) ==
    /\ req.pc = "idle"
    /\ calls < MaxMessages
    /\ calls' = calls + 1
    /\ EnsureApplication
    /\ IF status = "draft"
       THEN BeginResolve("answer", text, answer_rows, current_step, FALSE)
       ELSE BeginResolve("answer", text, <<>>, FirstStep, TRUE)
    /\ UNCHANGED chatFrame

\* handle_callback with __restart__: _restart_application_sync deletes the
\* application and creates one on the first step with the consent given
HandleRestart ==
    /\ req.pc = "idle"
    /\ calls < MaxMessages
    /\ calls' = calls + 1
    /\ account' = IF account.exists THEN account ELSE UserRow("applicant", FALSE)
    /\ status' = "draft"
    /\ history' = <<>>
    /\ BeginResolve("prompt", "", << AnswerRow(CONSENT_QUESTION_CODE, B(TRUE)) >>,
                    FirstStep, TRUE)
    /\ UNCHANGED chatFrame

\* one pass of the while loop: the visible questions of the step, the active
\* question among them, the step next_step names
VisibleNow == ChatVisible(req.step, build_answer_dict(answer_rows))
FoundIn(visible) ==
    IF IsExc(visible) THEN [question |-> "none", rows |-> answer_rows]
    ELSE ActiveAmong(visible.v, answer_rows)
Found == FoundIn(VisibleNow)

\* _prompt_next_question: the active question is sent to the user
PromptActive(found) ==
    /\ req.op = "prompt"
    /\ found.question # "none"
    /\ answer_rows' = found.rows
    /\ req' = ChatIdle(found.question)
    /\ UNCHANGED <<status, history, account, current_step, current_stage, calls>>
    /\ UNCHANGED chatFrame

\* handle_text with the active question and the value of the text: the skip
\* of an optional question, the errors replied, the consent decline, the
\* answer saved
Answered(found, checked) ==
    /\ IF _should_skip(req.text) /\ ~ChatQuestion(found.question).required
       THEN /\ answer_rows' = SaveRow(found.rows, found.question, Null)
            /\ req' = Resolving("prompt", "", current_step, found.question)
            /\ UNCHANGED <<status, history, account>>
       ELSE IF checked.error # ""
       THEN /\ answer_rows' = found.rows
            /\ req' = ChatIdle("error")
            /\ UNCHANGED <<status, history, account>>
       ELSE IF found.question = CONSENT_QUESTION_CODE /\ checked.value = B(FALSE)
       THEN /\ status' = NoApplication
            /\ answer_rows' = <<>>
            /\ history' = <<>>
            /\ account' = IF DeletesUser(account) THEN NoUser ELSE account
            /\ req' = ChatIdle("consent_declined")
       ELSE /\ answer_rows' = SaveRow(found.rows, found.question, checked.value)
            /\ req' = Resolving("prompt", "", current_step, "none")
            /\ UNCHANGED <<status, history, account>>
    /\ UNCHANGED <<current_step, current_stage, calls>>
    /\ UNCHANGED chatFrame
AnswerActive(found) ==
    /\ req.op = "answer"
    /\ found.question # "none"
    /\ \E checked \in {ChatValue(ChatQuestion(found.question), req.text)} :
           Answered(found, checked)

\* the end of a pass with every visible question of the step answered:
\* next_step, and either the return of None or the move to the step found
MoveOn(found, candidate) ==
    /\ IF IsExc(candidate)
       THEN /\ req' = ChatIdle("error")
            /\ UNCHANGED <<answer_rows, current_step, current_stage>>
       ELSE IF candidate = Null
       THEN /\ req' = ChatIdle(IF req.op = "prompt" THEN "finished" ELSE "already_filled")
            /\ answer_rows' = found.rows
            /\ UNCHANGED <<current_step, current_stage>>
       ELSE /\ req' = [req EXCEPT !.step = candidate.v,
                                  !.seen = req.seen \cup {candidate.v},
                                  !.revisits = req.revisits \/ candidate.v \in req.seen]
            /\ answer_rows' = found.rows
            /\ current_step' = candidate.v
            /\ current_stage' = StepOrder(Steps, candidate.v)
    /\ UNCHANGED <<status, history, account, calls>>
    /\ UNCHANGED chatFrame
NextCandidate(visible, found) ==
    /\ found.question = "none"
    /\ \E candidate \in {IF IsExc(visible) THEN visible
                          ELSE next_step(ChatSurvey, req.step,
                                         build_answer_dict(found.rows))} :
           MoveOn(found, candidate)

\* create_session: a new application on the first step of the survey
CreateSession ==
    /\ req.pc = "idle"
    /\ calls < MaxMessages
    /\ calls' = calls + 1
    /\ status' = "draft"
    /\ history' = <<>>
    /\ answer_rows' = <<>>
    /\ current_step' = FirstStep
    /\ current_stage' = StepOrder(Steps, FirstStep)
    /\ req' = ChatIdle("session")
    /\ UNCHANGED account
    /\ UNCHANGED chatFrame

\* patch_draft with a step_code and no answers: _set_current_step
SetCurrentStep(step_code) ==
    /\ req.pc = "idle"
    /\ calls < MaxMessages
    /\ calls' = calls + 1
    /\ IF status = NoApplication \/ (step_code # "" /\ step_code \notin StepCodes)
       THEN /\ req' = ChatIdle("not_found")
            /\ UNCHANGED <<current_step, current_stage>>
       ELSE IF step_code = ""
       THEN /\ req' = ChatIdle("ok")
            /\ UNCHANGED <<current_step, current_stage>>
       ELSE /\ req' = ChatIdle("ok")
            /\ current_step' = step_code
            /\ current_stage' = StepOrder(Steps, step_code)
    /\ UNCHANGED <<status, history, account, answer_rows>>
    /\ UNCHANGED chatFrame

\* _ensure_default_answers: today's date for an auto-filled date question
\* that has no answer row
DefaultRows(rows) ==
    IF unique_together(rows, "q_application_date") THEN rows
    ELSE Append(rows, AnswerRow("q_application_date", S(IsoFormat(Today))))
validate_required_of(step, ctx) == RequiredAmong(ChatVisible(step, ctx), ctx)
\* post_next after _ensure_default_answers: the required check of the current
\* step, then next_step and _update_stage_from_step
Advance(rows, ctx) ==
    IF /\ current_step # NoStep
       /\ \/ IsExc(validate_required_of(current_step, ctx))
          \/ Len(validate_required_of(current_step, ctx).v) > 0
    THEN /\ req' = ChatIdle("errors")
         /\ UNCHANGED <<current_step, current_stage>>
    ELSE IF IsExc(next_step(ChatSurvey, current_step, ctx))
    THEN /\ req' = ChatIdle("error")
         /\ UNCHANGED <<current_step, current_stage>>
    ELSE /\ req' = ChatIdle("ok")
         /\ current_step' = IF next_step(ChatSurvey, current_step, ctx) = Null
                            THEN NoStep
                            ELSE next_step(ChatSurvey, current_step, ctx).v
         /\ current_stage' = _update_stage_from_step(current_stage, current_step')
PostNext ==
    /\ req.pc = "idle"
    /\ calls < MaxMessages
    /\ calls' = calls + 1
    /\ IF status = NoApplication
       THEN /\ req' = ChatIdle("not_found")
            /\ UNCHANGED <<current_step, current_stage, answer_rows>>
       ELSE /\ answer_rows' = DefaultRows(answer_rows)
            /\ Advance(DefaultRows(answer_rows), build_answer_dict(DefaultRows(answer_rows)))
    /\ UNCHANGED <<status, history, account>>
    /\ UNCHANGED chatFrame

ChatMessage == HandleStart \/ (\E text \in ChatTexts : HandleText(text)) \/ HandleRestart
ResolveActiveQuestion ==
    /\ req.pc = "resolving"
    /\ \E visible \in {VisibleNow} : \E found \in {FoundIn(visible)} :
           PromptActive(found) \/ AnswerActive(found) \/ NextCandidate(visible, found)
PageRequest == CreateSession \/ (\E step_code \in StepCodes \cup {"", "missing"} :
                                     SetCurrentStep(step_code)) \/ PostNext

NextChat == ChatMessage \/ ResolveActiveQuestion \/ PageRequest
SpecChat == InitChat /\ [][NextChat]_vars
\* a handler that is running goes on running
SpecChatFair == SpecChat /\ WF_vars(ResolveActiveQuestion)

\* ------------------------------------------------------------------------
\* Properties of the status workflow
\* ------------------------------------------------------------------------
FourEdges ==
    { <<"draft", "submitted">>, <<"submitted", "under_review">>,
      <<"submitted", "approved">>, <<"submitted", "rejected">> }
IllegalPair(current, new) == current # new /\ <<current, new>> \notin FourEdges

\* the step in which change_status answers request p without a transaction
Answers(p) == req[p].pc = "loaded" /\ req'[p].pc = "done"

\* C1: with requests served one after another, the stored status only ever
\* moves along Draft->Submitted, Submitted->UnderReview, Submitted->Approved and
\* Submitted->Rejected, and a request for any other pair of distinct statuses
\* is refused and leaves the status as it was.
C1_StatusMovesAlongFourEdges ==
    [][ /\ status' # status => <<status, status'>> \in FourEdges
        /\ \A p \in Procs :
              (Answers(p) /\ IllegalPair(status, req[p].new_status))
              => (req'[p].result = "invalid_transition" /\ status' = status) ]_vars

\* C1 witness: an application under review, and a request to approve it refused
C1_Witness ==
    /\ status = "under_review"
    /\ \E p \in Procs : /\ req[p].pc = "done"
                        /\ req[p].result = "invalid_transition"
                        /\ req[p].app_status = "under_review"
                        /\ req[p].new_status = "approved"

\* C2: a change_status call for an illegal transition (judged on the status of
\* the application it was handed) ends with the transition error and writes
\* nothing: status, submitted_at, the history and the audit log are unchanged.
C2_IllegalTransitionWritesNothing ==
    [][ \A p \in Procs :
          (Answers(p) /\ IllegalPair(req[p].app_status, req[p].new_status))
          => /\ req'[p].result = "invalid_transition"
             /\ status' = status
             /\ submitted_at' = submitted_at
             /\ history' = history
             /\ audit_log' = audit_log ]_vars

\* C2 witness: Draft -> Approved was asked and refused, with no history row
C2_Witness ==
    /\ status = "draft"
    /\ history = <<>>
    /\ \E p \in Procs : /\ req[p].pc = "done"
                        /\ req[p].result = "invalid_transition"
                        /\ req[p].app_status = "draft"
                        /\ req[p].new_status = "approved"

\* C3: with requests served one after another, every step that adds a history
\* row or changes the status does both at once: it appends exactly one row
\* (previous status, new status, actor) and sets the status to the new status;
\* a failed transaction leaves both as they were.
C3_HistoryAndStatusTogether ==
    [][ (history' # history \/ status' # status)
        => \E p \in Procs :
              /\ req[p].pc = "in_tx"
              /\ req'[p].result = "changed"
              /\ status' = req[p].new_status
              /\ status' # status
              /\ history' = Append(history,
                     [old_status |-> status, new_status |-> req[p].new_status,
                      changed_by |-> req[p].actor,
                      created_at |-> req[p].created_at]) ]_vars

\* C3 witness: a committed change Draft -> Submitted by the employee with its
\* one row, after an attempt whose transaction failed and left nothing
C3_Witness ==
    /\ status = "submitted"
    /\ Len(history) = 1
    /\ history[1].old_status = "draft"
    /\ history[1].new_status = "submitted"
    /\ history[1].changed_by = "employee"
    /\ \E p, q \in Procs :
          /\ req[p].pc = "done" /\ req[p].result = "changed"
          /\ req[q].pc = "done" /\ req[q].result = "server_error"
          /\ req[q].op = "status_patch"

\* C4: two submit() calls served at the same time on one Draft application
\* leave at most one Draft -> Submitted row in the history.
C4_AtMostOneSubmittedRow ==
    Cardinality({i \in 1..Len(history) :
                    /\ history[i].old_status = "draft"
                    /\ history[i].new_status = "submitted"}) <= 1

\* C4: both submit() calls came back as having changed the status
C4_BothSubmitsChanged ==
    /\ \A p \in Procs : /\ req[p].pc = "done" /\ req[p].op = "submit"
                        /\ req[p].result = "changed"
    /\ Len(history) = 2

\* ApplicationStatusHistory.Meta.ordering = ("-created_at", "id"): the first
\* row a reader gets
LatestHistory ==
    history[CHOOSE i \in 1..Len(history) :
                \A j \in 1..Len(history) :
                    \/ history[j].created_at < history[i].created_at
                    \/ (history[j].created_at = history[i].created_at /\ i <= j)]

\* C5: in every reachable state, whatever the interleaving of the change_status
\* calls, an application that is no longer Draft has a most recent history row
\* whose new_status is its current status.
C5_LatestRowMatchesStatus ==
    status # "draft" => (Len(history) > 0 /\ LatestHistory.new_status = status)

\* C5: two reviewers decided one Submitted application at the same time, and
\* the status stored last is not the one of the most recent row
C5_ReviewersDisagree ==
    /\ Len(history) = 3
    /\ status = "approved"
    /\ LatestHistory.new_status = "rejected"

\* C6: every status other than the initial Draft that the application holds was
\* written by change_status, so the history has a row with that new_status.
C6_StatusHasHistoryRow ==
    status # "draft" => \E i \in 1..Len(history) : history[i].new_status = status

\* C6: the admin form has stored a status and there is no history at all
C6_StatusWithoutHistory ==
    status = "approved" /\ history = <<>>

\* C7: a change_status call for the status the application object already has
\* returns it unchanged without an error, and leaves the status, submitted_at
\* and the history as they were, for every status.
C7_SameStatusIsNoOp ==
    [][ \A p \in Procs :
          (req[p].pc = "loaded" /\ req'[p] # req[p]
           /\ req[p].new_status = req[p].app_status)
          => /\ req'[p].pc = "done"
             /\ req'[p].result = "unchanged"
             /\ status' = status
             /\ submitted_at' = submitted_at
             /\ history' = history ]_vars

\* C7 witness: Approved was asked for an Approved application and came back
\* unchanged
C7_Witness ==
    /\ status = "approved"
    /\ Len(history) = 2
    /\ \E p \in Procs : /\ req[p].pc = "done"
                        /\ req[p].result = "unchanged"
                        /\ req[p].app_status = "approved"
                        /\ req[p].new_status = "approved"

\* some change to a different status that change_status accepts
HasExit(current) ==
    \E new \in Statuses \ {current} : change_status_decision(current, new) = "write"

\* C8: the status the application holds has no accepted change to a different
\* status exactly when it is Approved or Rejected.
C8_OnlyApprovedAndRejectedTerminal ==
    (status \in {"approved", "rejected"}) <=> ~HasExit(status)

\* C8: an application under review, from which every change is refused
C8_UnderReviewIsStuck ==
    status = "under_review" /\ ~HasExit("under_review")

\* ------------------------------------------------------------------------
\* Properties of submit and of the document check
\* ------------------------------------------------------------------------
\* the step in which post_submit reads the application for request p
SubmitReads(p) == Idle(p) /\ req'[p] # req[p] /\ req'[p].op = "submit"

\* what both passes report on the answers post_submit has stored
StepErrorsAfter ==
    IF current_step # NoStep THEN validate_required(current_step, answers').v
    ELSE <<>>
DocumentErrorsAfter ==
    validate_documents(requirements, applicant_type, documents, answers').v
IsValidationMessage(error) == error.message \in {"required", "missing"}

\* what the step that reads the application for a submit must do, given the
\* errors of the two passes
SubmitGated(p, step_errors, document_errors) ==
    /\ status' = status
    /\ submitted_at' = submitted_at
    /\ history' = history
    /\ req'[p].pc = "loaded" => (step_errors = <<>> /\ document_errors = <<>>)
    /\ Len(step_errors \o document_errors) > 0
       => /\ req'[p].pc = "done"
          /\ req'[p].result = "validation_error"
          /\ \/ req'[p].errors = step_errors \o document_errors
             \/ /\ Len(req'[p].errors) > 0
                /\ \A i \in 1..Len(req'[p].errors) :
                      ~IsValidationMessage(req'[p].errors[i])

\* C9: submit() goes on to change_status only when validate_required (for the
\* current step) and validate_documents both report nothing; when either
\* reports an error submit returns the errors (or those of its answer patch),
\* the status, submitted_at and the history stay as they were, and only a
\* submit request that went on to change_status ever writes Submitted.
C9_SubmitOnlyWhenValid ==
    [][ \A p \in Procs :
          /\ SubmitReads(p) => SubmitGated(p, StepErrorsAfter, DocumentErrorsAfter)
          /\ (req[p].op = "submit" /\ req'[p].result = "changed" /\ req'[p] # req[p])
             => req[p].pc = "in_tx" ]_vars

\* C9 witness: a submit refused with a missing required answer and two unmet
\* document requirements, the application still Draft with no history
C9_Witness ==
    /\ status = "draft"
    /\ history = <<>>
    /\ \E p \in Procs :
          /\ req[p].pc = "done" /\ req[p].op = "submit"
          /\ req[p].result = "validation_error"
          /\ req[p].errors = << RequiredError("q_guardian_name"),
                                DocumentError("passport"),
                                DocumentError("birth_certificate") >>

\* the requirement is mandatory on the answers enriched with branch and age
Mandatory(requirement) ==
    \/ requirement.expression = Null
    \/ requirement.expression = B(TRUE)
    \/ eval_expr(requirement.expression,
                 DocumentContext(applicant_type, answers)) = B(TRUE)
\* a non-archived document under the code whose latest version is acceptable
Ready(code) ==
    \E i \in 1..Len(documents) :
        /\ ~documents[i].is_archived
        /\ DocumentCode(documents[i]) = code
        /\ Len(documents[i].versions) > 0
        /\ documents[i].versions[Len(documents[i].versions)]
               \in {"uploaded", "available"}
UnmetCodes ==
    {requirements[i].code : i \in {j \in 1..Len(requirements) :
                                      /\ Mandatory(requirements[j])
                                      /\ ~Ready(requirements[j].code)}}
ReportedFields(errors) == {errors[i].field : i \in 1..Len(errors)}

\* the step in which validate_documents is called for request p
ValidateRuns(p) == req'[p] # req[p] /\ req'[p].op = "validate_documents"

\* C10: every call of validate_documents returns one result that reports a
\* requirement exactly when it is mandatory and has no non-archived document
\* under its code whose latest version is uploaded or available; with no
\* requirements the result is empty.
C10_ReportsExactlyTheUnmet ==
    [][ \A p \in Procs :
          ValidateRuns(p) =>
            /\ req'[p].result = "returned"
            /\ ReportedFields(req'[p].errors)
                 = {<<"documents", code>> : code \in UnmetCodes}
            /\ requirements = <<>> => req'[p].errors = <<>> ]_vars

\* C10: the call ended in a TypeError although the passport, mandatory for
\* everyone, is missing
C10_RaisedWithUnmetRequirement ==
    /\ "passport" \in UnmetCodes
    /\ \E p \in Procs : /\ req[p].pc = "done"
                        /\ req[p].op = "validate_documents"
                        /\ req[p].result = "TypeError"

\* What the check does guarantee: whenever it returns a result, the result
\* reports exactly the unmet requirements
ReturnedResultIsExact ==
    [][ \A p \in Procs :
          (ValidateRuns(p) /\ req'[p].result = "returned") =>
            /\ ReportedFields(req'[p].errors)
                 = {<<"documents", code>> : code \in UnmetCodes}
            /\ requirements = <<>> => req'[p].errors = <<>> ]_vars

\* ------------------------------------------------------------------------
\* Properties of the document check and the evaluator
\* ------------------------------------------------------------------------
ErrorsFor(errors, code) ==
    {i \in 1..Len(errors) : errors[i].field = <<"documents", code>>}

\* C11: a result of validate_documents holds at most one error per requirement
\* code, and exactly one for an unmet code, also when the code is configured
\* more than once.
C11_OneErrorPerCode ==
    [][ \A p \in Procs :
          (ValidateRuns(p) /\ req'[p].result = "returned") =>
            \A code \in RequirementCodes :
                Cardinality(ErrorsFor(req'[p].errors, code))
                  = IF code \in UnmetCodes THEN 1 ELSE 0 ]_vars

\* C11: the passport requirement is configured twice, no passport is ready,
\* and the result reports the passport twice
C11_PassportReportedTwice ==
    /\ requirements = <<Requirement("passport", Null), Requirement("passport", Null)>>
    /\ "passport" \in UnmetCodes
    /\ \E p \in Procs :
          /\ req[p].pc = "done" /\ req[p].op = "validate_documents"
          /\ req[p].errors = <<DocumentError("passport"), DocumentError("passport")>>

\* the call recorded is a call of fn
Called(fn) == evaluation.fn = fn

\* C12: validate_required and validate_documents return an error list for
\* every answer map; they never raise, also when a visibility or gating
\* expression orders a variable the context does not hold.
C12_ValidatorsNeverRaise ==
    (Called("validate_required") \/ Called("validate_documents"))
        => ~IsExc(evaluation.out)

\* C12: the number of children is unanswered and validate_required of the
\* step asking for their names ended in a TypeError
C12_RaisedOnAbsentVariable ==
    /\ Called("validate_required")
    /\ evaluation.arg = <<"extra">>
    /\ "q_children_count" \notin DOMAIN answers
    /\ evaluation.out = Exc("TypeError")

\* ------------------------------------------------------------------------
\* Properties of the step navigation
\* ------------------------------------------------------------------------
\* the step-scoped condition rows of the survey that leave the step, and
\* those of them whose expression is true on the stored answers
RowsLeaving(survey, current) ==
    {i \in 1..Len(survey.conditions) :
        /\ survey.conditions[i].scope = "step"
        /\ survey.conditions[i].from_step = current}
TrueRowsLeaving(survey, current) ==
    {i \in RowsLeaving(survey, current) :
        eval_expr(survey.conditions[i].expression, answers) = B(TRUE)}
LowestId(survey, rows) ==
    CHOOSE i \in rows : \A j \in rows : survey.conditions[i].id <= survey.conditions[j].id
IsStepOf(survey, code) == \E i \in 1..Len(survey.steps) : survey.steps[i].code = code
StepRow(survey, code) == CHOOSE s \in Range(survey.steps) : s.code = code
StepsAfter(survey, current) ==
    {s \in Range(survey.steps) : StepPrecedes(StepRow(survey, current), s)}
\* the step immediately after the current one in (order, id) order, or null
NextInOrder(survey, current) ==
    IF StepsAfter(survey, current) = {} THEN Null
    ELSE StepRef((CHOOSE s \in StepsAfter(survey, current) :
                     \A other \in StepsAfter(survey, current) :
                         other = s \/ StepPrecedes(s, other)).code)
ExpectedNext(survey, current) ==
    IF TrueRowsLeaving(survey, current) # {}
    THEN GotoStep(survey.conditions[LowestId(survey, TrueRowsLeaving(survey, current))])
    ELSE NextInOrder(survey, current)
\* next_step was called for a step of the survey
NavigatedFrom(survey, current) ==
    /\ Called("next_step")
    /\ evaluation.arg = <<survey, current>>
    /\ current # NoStep
    /\ IsStepOf(survey, current)

\* C13: for a current step of the survey, next_step returns the target of the
\* true step condition leaving that step with the lowest id; when none is true
\* it returns the step immediately after the current one in (order, id)
\* order, and null when the current step is the last.
C13_FirstTrueConditionOrNextStep ==
    \A survey \in NavSurveys, current \in NavSteps :
        NavigatedFrom(survey, current) =>
            evaluation.out = ExpectedNext(survey, current)

\* C13: the only condition leaving the step orders the unanswered number of
\* children, and next_step ended in a TypeError instead of returning the step
\* after it
C13_RaisedInsteadOfNextStep ==
    /\ NavigatedFrom(BranchingSurvey, "extra")
    /\ "q_children_count" \notin DOMAIN answers
    /\ TrueRowsLeaving(BranchingSurvey, "extra") = {}
    /\ NextInOrder(BranchingSurvey, "extra") = StepRef("final")
    /\ evaluation.out = Exc("TypeError")

\* What next_step does guarantee: whenever it returns, it returns the step
\* the rule names
NextStepExactWhenReturned ==
    \A survey \in NavSurveys, current \in NavSteps :
        (NavigatedFrom(survey, current) /\ ~IsExc(evaluation.out)) =>
            evaluation.out = ExpectedNext(survey, current)

\* the step no other step of the survey precedes in (order, id) order
FirstInOrder(survey) ==
    CHOOSE s \in Range(survey.steps) :
        \A other \in Range(survey.steps) : other = s \/ StepPrecedes(s, other)

\* C14: next_step with a null current step returns the first step of the
\* survey in (order, id) order whatever the answers are, and null for a survey
\* without steps.
C14_NullStepGivesFirstStep ==
    \A survey \in NavSurveys :
        (Called("next_step") /\ evaluation.arg = <<survey, NoStep>>) =>
            evaluation.out = IF Len(survey.steps) = 0 THEN Null
                             ELSE StepRef(FirstInOrder(survey).code)

\* C14: asked with a null step about the survey whose first row is not its
\* first step, with answers that make a condition leaving intro true,
\* next_step returned intro
C14_Witness ==
    /\ Called("next_step")
    /\ evaluation.arg = <<BranchingSurvey, NoStep>>
    /\ BranchingSurvey.steps[1].code # "intro"
    /\ TrueRowsLeaving(BranchingSurvey, "intro") # {}
    /\ evaluation.out = StepRef("intro")

\* C15 as stated: in the survey with steps intro and basic and the condition
\* q_agree == true from intro to basic, next_step from intro returns basic
\* when q_agree is true and null when q_agree is false.
C15_ConsentGateAsStated ==
    NavigatedFrom(ConsentSurvey, "intro") =>
        /\ answers = ("q_agree" :> B(TRUE)) => evaluation.out = StepRef("basic")
        /\ answers = ("q_agree" :> B(FALSE)) => evaluation.out = Null

\* C15 amended: next_step from intro returns basic when q_agree is true, and
\* also when q_agree is false, basic being the step after intro; from basic,
\* the last step, it returns null.
C15_ConsentSurveyFallsThrough ==
    /\ NavigatedFrom(ConsentSurvey, "intro") =>
        /\ answers = ("q_agree" :> B(TRUE)) => evaluation.out = StepRef("basic")
        /\ answers = ("q_agree" :> B(FALSE)) => evaluation.out = StepRef("basic")
    /\ NavigatedFrom(ConsentSurvey, "basic") =>
        (answers = ("q_agree" :> B(FALSE)) => evaluation.out = Null)

\* C15: consent was refused, no condition leaving intro is true, and next_step
\* returned basic
C15_Witness ==
    /\ NavigatedFrom(ConsentSurvey, "intro")
    /\ answers = ("q_agree" :> B(FALSE))
    /\ TrueRowsLeaving(ConsentSurvey, "intro") = {}
    /\ evaluation.out = StepRef("basic")

\* ------------------------------------------------------------------------
\* Properties of the visibility resolver and the completeness pass
\* ------------------------------------------------------------------------
QuestionsOf(step) == {q \in Range(Questions) : q.step = step}
ConditionsOn(question) ==
    {c \in Range(Conditions) : c.scope = "question" /\ c.question = question.id}
\* the question has no condition, or every condition row on it is true on the
\* stored answers
ShouldBeVisible(question) ==
    \A c \in ConditionsOn(question) : eval_expr(c.expression, answers) = B(TRUE)
ShouldBeVisibleIn(step) == {q \in QuestionsOf(step) : ShouldBeVisible(q)}
VisibleCall(step) == Called("visible_questions") /\ evaluation.arg = <<step>>
ReturnedList == ~IsExc(evaluation.out)

\* C16: visible_questions returns exactly the questions of the step that have
\* no question-scoped condition or whose condition rows are all true on the
\* answers, each once; the result is a subset of the questions of the step.
C16_VisibleExactly ==
    \A step \in StepCodes :
        VisibleCall(step) =>
            /\ ReturnedList
            /\ Range(evaluation.out.v) = ShouldBeVisibleIn(step)
            /\ Len(evaluation.out.v) = Cardinality(ShouldBeVisibleIn(step))
            /\ Range(evaluation.out.v) \subseteq QuestionsOf(step)

\* C16: the number of children is unanswered; its question has no condition
\* and should be shown, but visible_questions ended in a TypeError
C16_RaisedInsteadOfQuestions ==
    /\ VisibleCall("extra")
    /\ "q_children_count" \notin DOMAIN answers
    /\ QuestionByCode("q_children_count") \in ShouldBeVisibleIn("extra")
    /\ evaluation.out = Exc("TypeError")

\* What visible_questions does guarantee: a returned list holds exactly the
\* questions that should be visible
VisibleExactWhenReturned ==
    \A step \in StepCodes :
        (VisibleCall(step) /\ ReturnedList) =>
            /\ Range(evaluation.out.v) = ShouldBeVisibleIn(step)
            /\ Len(evaluation.out.v) = Cardinality(ShouldBeVisibleIn(step))

\* the questions validate_required has to report: required, visible, and
\* answered with nothing (null, "", [] or {}) or not at all
StoredValue(code) == IF code \in DOMAIN answers THEN answers[code] ELSE Null
NothingAnswered(code) ==
    StoredValue(code) \in {Null, S(""), L(<<>>), D(<<>>)}
ShouldBeReported(step) ==
    {q.code : q \in {v \in ShouldBeVisibleIn(step) :
                        v.required /\ NothingAnswered(v.code)}}
RequiredCall(step) == Called("validate_required") /\ evaluation.arg = <<step>>

\* C17: validate_required reports a missing-required error for a question
\* exactly when the question is required, visible under the answers and its
\* answer is empty; a required question that is hidden is not reported.
C17_ReportsRequiredVisibleEmpty ==
    \A step \in StepCodes :
        RequiredCall(step) =>
            /\ ReturnedList
            /\ {e.field : e \in Range(evaluation.out.v)}
                 = {<<code>> : code \in ShouldBeReported(step)}
            /\ Len(evaluation.out.v) = Cardinality(ShouldBeReported(step))

\* C17: the number of children is required, shown and unanswered, yet
\* validate_required ended in a TypeError and reported nothing
C17_RaisedInsteadOfReport ==
    /\ RequiredCall("extra")
    /\ "q_children_count" \in ShouldBeReported("extra")
    /\ evaluation.out = Exc("TypeError")

\* What validate_required does guarantee: a returned list reports exactly
\* the required, visible, empty questions
ReportExactWhenReturned ==
    \A step \in StepCodes :
        (RequiredCall(step) /\ ReturnedList) =>
            /\ {e.field : e \in Range(evaluation.out.v)}
                 = {<<code>> : code \in ShouldBeReported(step)}
            /\ Len(evaluation.out.v) = Cardinality(ShouldBeReported(step))

\* a hidden required question with no answer, and a result that leaves it out
HiddenRequiredNotReported ==
    /\ RequiredCall("basic")
    /\ ReturnedList
    /\ "q_guardian_name" \notin DOMAIN answers
    /\ ~ShouldBeVisible(QuestionByCode("q_guardian_name"))
    /\ \A e \in Range(evaluation.out.v) : e.field # <<"q_guardian_name">>

\* ------------------------------------------------------------------------
\* Properties of the evaluator
\* ------------------------------------------------------------------------
\* the expression holds a {var: ...} node somewhere
RECURSIVE HasVarNode(_)
HasVarNode(expr) ==
    CASE expr.k = "dict" ->
            \/ DictHas(expr, "var")
            \/ \E i \in 1..Len(expr.v) : HasVarNode(expr.v[i][2])
      [] expr.k = "list" -> \E i \in 1..Len(expr.v) : HasVarNode(expr.v[i])
      [] OTHER -> FALSE

\* contexts the result is compared under: no answers, consent given, consent
\* refused, a parent with two children
ProbeContexts ==
    { <<>>,
      ("q_agree" :> B(TRUE)),
      ("q_agree" :> B(FALSE)),
      ("q_agree" :> B(TRUE)) @@ ("q_who_fills" :> S("parent"))
          @@ ("q_children_count" :> N(2)) }

EvalCall(expr) == Called("eval_expr") /\ evaluation.arg = <<expr>>

\* C18: the result of eval_expr on an expression without a {var: ...} node is
\* the same under every context.
C18_VarFreeIsContextIndependent ==
    \A expr \in FormExpressions :
        (EvalCall(expr) /\ ~HasVarNode(expr)) =>
            \A ctx \in ProbeContexts : eval_expr(expr, ctx) = evaluation.out

\* C18: the expression {"==": ["$q_agree", true]} has no var node; it is true
\* on the stored answers and false on the empty context
C18_DollarOperandReadsContext ==
    /\ EvalCall(Op("==", S("$q_agree"), B(TRUE)))
    /\ ~HasVarNode(Op("==", S("$q_agree"), B(TRUE)))
    /\ evaluation.out = B(TRUE)
    /\ eval_expr(Op("==", S("$q_agree"), B(TRUE)), <<>>) = B(FALSE)

\* the expression holds a string operand that begins with "$"
RECURSIVE HasDollarOperand(_)
HasDollarOperand(expr) ==
    CASE expr.k = "dict" -> \E i \in 1..Len(expr.v) : HasDollarOperand(expr.v[i][2])
      [] expr.k = "list" -> \E i \in 1..Len(expr.v) : HasDollarOperand(expr.v[i])
      [] expr.k = "str" -> StartsWithDollar(expr.v)
      [] OTHER -> FALSE

\* What the evaluator does guarantee: without var nodes and without "$"
\* operands the result is the same under every context
LiteralOnlyIsContextIndependent ==
    \A expr \in FormExpressions :
        (EvalCall(expr) /\ ~HasVarNode(expr) /\ ~HasDollarOperand(expr)) =>
            \A ctx \in ProbeContexts : eval_expr(expr, ctx) = evaluation.out

\* ------------------------------------------------------------------------
\* Properties of answer normalization
\* ------------------------------------------------------------------------
\* C20: normalization is stable: when validate_answer_value accepts a raw
\* value for a question with normalized value v, validating v for the same
\* question is accepted as well and returns v.
C20_NormalizationIsStable ==
    [][Revalidate => evaluation'.out = Accepted(evaluation.out.value)]_vars
\* a value that normalization changed (blanks stripped, a date re-formatted,
\* a list de-duplicated, a number parsed, a word read as a boolean) has been
\* validated a second time
C20_Witness ==
    /\ evaluation.fn = "revalidate"
    /\ evaluation.out.error = ""
    /\ evaluation.arg[2] = S("2015-06-15")
    /\ evaluation.arg[1].type = "date"

\* ------------------------------------------------------------------------
\* Properties of the answer writes
\* ------------------------------------------------------------------------
AtMostOneAnswerPerQuestion ==
    \A code \in QuestionCodes : Len(RowsFor(answer_rows, code)) <= 1
\* worker p completes, in this step, the write of the pair (code, value)
Commits(p, code) ==
    /\ req[p].pc \in {"get", "create"}
    /\ Len(req[p].todo) > 0
    /\ Head(req[p].todo).question = code
    /\ Len(req'[p].todo) = Len(req[p].todo) - 1
\* a step changes the rows of a question only by a write of that question,
\* which leaves the one row with the value written, or by the deletion of
\* the application
HoldsLastValueWritten ==
    \A code \in QuestionCodes :
        \/ RowsFor(answer_rows', code) = RowsFor(answer_rows, code)
        \/ \E p \in Procs :
               /\ Commits(p, code)
               /\ RowsFor(answer_rows', code) = << Head(req[p].todo) >>
        \/ status' = NoApplication /\ answer_rows' = <<>>
\* worker p sends, in this step, the response of a patch that repeats the
\* patch completed last
RepeatedPatchEnds(p) ==
    /\ req[p].pc = "get"
    /\ req[p].op = "patch_draft"
    /\ AppliesAgain(p)
    /\ req'[p].pc = "idle"
    /\ req'[p].result = "ok"
SecondPatchChangesNothing ==
    \A p \in Procs : RepeatedPatchEnds(p) => answer_rows = evaluation.out

\* C19: after any sequence or interleaving of answer writes (web patch, chat
\* save) on one application there is at most one Answer per question, and it
\* holds the last value written; an identical valid patch applied a second
\* time leaves the stored answers as they were after the first.
C19_OneAnswerHoldingLastValue ==
    /\ []AtMostOneAnswerPerQuestion
    /\ [][HoldsLastValueWritten /\ SecondPatchChangesNothing]_vars
\* two workers both found no row of a question and both went on to insert
\* it; the one that came second updated the row of the first
C19_Witness ==
    \E p \in Procs :
        /\ req[p].pc = "idle"
        /\ req[p].result = "ok"
        /\ req[p].retried
        /\ Len(RowsFor(answer_rows, "q_who_fills")) = 1
        /\ Len(RowsFor(answer_rows, "q_guardian_name")) = 1
\* a worker has applied, undisturbed, the patch completed last a second
\* time, normalizing " parent " again, and is about to respond
RepeatedPatchSeen ==
    \E p \in Procs :
        /\ req[p].pc = "get"
        /\ Len(req[p].todo) = 0
        /\ AppliesAgain(p)
        /\ evaluation.arg[2] = p
        /\ req[p].items = << Item("q_who_fills", S("parent")),
                             Item("q_guardian_name", S(" parent ")) >>

\* ------------------------------------------------------------------------
\* Properties of the upload limit
\* ------------------------------------------------------------------------
WithinDocumentLimit ==
    Cardinality(ActiveDocuments(documents)) <= DOCUMENTS_MAX_DOCUMENTS_PER_APPLICATION
\* a call passes the count only below the limit
RefusedAtLimit ==
    \A p \in Procs :
        (/\ req[p].pc = "idle"
         /\ req'[p].pc = "create")
            => Cardinality(ActiveDocuments(documents))
                   < DOCUMENTS_MAX_DOCUMENTS_PER_APPLICATION

\* C21: for any interleaving of request_upload calls that create a new
\* document on one application, the number of non-archived documents never
\* exceeds the configured maximum, and a call made when the count has
\* reached the maximum is refused and creates nothing.
C21_ActiveDocumentsWithinLimit ==
    /\ []WithinDocumentLimit
    /\ [][RefusedAtLimit]_vars
\* two workers counted the active documents below the limit before either
\* inserted, and both inserted
C21_LimitExceeded ==
    /\ Cardinality(ActiveDocuments(documents)) > DOCUMENTS_MAX_DOCUMENTS_PER_APPLICATION
    /\ \A p \in Procs : req[p].pc = "idle" /\ req[p].result = "created"
\* a call that finds the limit reached is refused: the second half of the
\* claim holds on its own
CountRefusesAtLimit == [][RefusedAtLimit]_vars

\* ------------------------------------------------------------------------
\* Consent decline
\* ------------------------------------------------------------------------
\* the patch carries q_agree with the value false
SetsConsentFalse(items) ==
    \E i \in 1..Len(items) :
        items[i].question_code = "q_agree" /\ items[i].value = B(FALSE)
\* the patch of an existing application that sets q_agree to false leaves no
\* application, answer or history row, stores nothing and answers
\* consent_declined; the user row goes exactly when it is an applicant's
\* with no other application
DeclineDeletesApplication ==
    \A p \in Procs, items \in AnswerPatches :
        (StartPatch(p, items) /\ status # NoApplication /\ SetsConsentFalse(items))
        => /\ status' = NoApplication
           /\ answer_rows' = <<>>
           /\ history' = <<>>
           /\ req'[p].result = "consent_declined"
           /\ req'[p].pc = "idle"
           /\ account'.exists = (account.exists /\ ~(/\ ~account.other_applications
                                                      /\ account.role = "applicant"))
           /\ account.exists /\ account'.exists => account' = account

\* C22: a patch that sets q_agree to false deletes the application with its
\* answers and status history whatever the status, stores none of the
\* patch's values, answers with the consent-declined response, and deletes
\* the user exactly when the user has no other application and the
\* applicant role
C22_ConsentDeclineDeletes == [][DeclineDeletesApplication]_vars

\* C22 witness: a Submitted application with an answer and a history row was
\* declined by its applicant, who had no other application: all are gone
C22_Witness ==
    /\ status = NoApplication
    /\ answer_rows = <<>>
    /\ history = <<>>
    /\ account = NoUser
    /\ submitted_at = 1
    /\ \E p \in Procs : req[p].result = "consent_declined"
\* a declined application whose user stays: an employee, or an applicant
\* with another application
DeclinedUserKept ==
    /\ status = NoApplication
    /\ account.exists
    /\ \E p \in Procs : req[p].result = "consent_declined"

\* ------------------------------------------------------------------------
\* Magic-link tokens
\* ------------------------------------------------------------------------
\* a redeem that returns the user finds the token unused and unexpired
RedeemsFreshToken ==
    \A p \in Procs :
        (req[p].pc = "verified" /\ req'[p].result = "user")
        => /\ magic_token.used_at = 0
           /\ now < magic_token.expires_at

\* C23: a magic-link token is single-use under every sequence and
\* interleaving of redeem_magic_link calls: a redeem returns the user only
\* while no redeem has succeeded before, and never for an expired token
C23_TokenRedeemedOnce == [][RedeemsFreshToken]_vars

\* C23 witness: both workers redeemed the one token and both got the user
C23_RedeemedTwice ==
    /\ \A p \in Procs : req[p].result = "user"
    /\ magic_token.used_at # 0
\* a redeem that starts after a redeem has returned the user, or after the
\* expiry, returns None
LateRedeemRefused ==
    [][\A p \in Procs :
          (req[p].pc = "idle" /\ req'[p].pc = "verified")
          => magic_token.used_at = 0 /\ now < magic_token.expires_at]_vars

\* ------------------------------------------------------------------------
\* The chat front-end
\* ------------------------------------------------------------------------
\* the handler that skipped a question ends with its next prompt: it is not
\* the question skipped, whose skip is stored
SkipMakesProgress ==
    (req.pc = "resolving" /\ req.skipped # "none" /\ req'.pc = "idle")
    => /\ req'.prompt # req.skipped
       /\ unique_together(answer_rows', req.skipped)

\* C24: the skip word sent for an optional question is recorded and the
\* next prompt of the chat is for another question or the completion
\* message, not for the question skipped
C24_SkipMakesProgress == [][SkipMakesProgress]_vars

\* C24 witness: q_comment was skipped, its row holds None, and the chat has
\* asked q_comment again
C24_SkippedAskedAgain ==
    /\ req.pc = "idle"
    /\ req.prompt = "q_comment"
    /\ unique_together(answer_rows, "q_comment")
    /\ build_answer_dict(answer_rows)["q_comment"] = Null

\* no visible question of a step reachable from the first step is unanswered
RECURSIVE CompleteFrom(_, _, _)
CompleteFrom(step, ctx, left) ==
    \/ step = Null
    \/ /\ left > 0
       /\ ActiveAmong(ChatVisible(step.v, ctx).v, <<>>).question = "none"
       /\ CompleteFrom(next_step(ChatSurvey, step.v, ctx), ctx, left - 1)
\* the chat flow that finds the questionnaire complete leaves the
\* application Submitted with a history row of the transition
CompletedIsSubmitted ==
    (req.pc = "resolving" /\ req'.pc = "idle" /\ req'.prompt = "finished")
    => /\ status' = "submitted"
       /\ Len(history') > 0
       /\ history'[Len(history')].new_status = "submitted"

\* C25: an application filled in through the chat whose questionnaire is
\* complete is moved from Draft to Submitted, with a history row, by the
\* chat flow
C25_ChatSubmits == [][CompletedIsSubmitted]_vars

\* C25 witness: the chat has sent the completion message, every question is
\* answered, and the application is a Draft without history
C25_CompleteButDraft ==
    /\ req.pc = "idle"
    /\ req.prompt = "finished"
    /\ \A i \in 1..Len(ChatQuestions) :
           ~_is_answer_missing(CtxGet(build_answer_dict(answer_rows),
                                      ChatQuestions[i].code))
    /\ status = "draft"
    /\ history = <<>>

\* C27: _resolve_active_question_sync terminates, also when the step
\* conditions redirect in a cycle and every visible question on the cycle
\* is answered
C27_ResolveTerminates == (req.pc = "resolving") ~> (req.pc = "idle")

\* C27 witness: the resolution is back on a step it has already left, with
\* every visible question of that step answered
C27_BackOnVisitedStep ==
    /\ req.pc = "resolving"
    /\ req.revisits
    /\ ~IsExc(VisibleNow)
    /\ Found.question = "none"

\* C30: whenever the application exists, current_stage is the order of its
\* current step, and 0 when it has no current step
C30_StageFollowsStep ==
    status # NoApplication =>
        current_stage = (IF current_step = NoStep THEN 0
                         ELSE Steps[CHOOSE i \in 1..Len(Steps) :
                                        Steps[i].code = current_step].order)

\* C30 witness: advance moved the application past the last step, and the
\* stage went back to 0
C30_Witness ==
    /\ req.prompt = "ok"
    /\ current_step = NoStep
    /\ current_stage = 0
    /\ Len(answer_rows) > 1
\* the stage of an application moved to a later step by the chat
StageMovedByChat ==
    /\ req.pc = "resolving"
    /\ current_step = "extra"
    /\ current_stage = 3

\* ------------------------------------------------------------------------
\* Completeness at submission
\* ------------------------------------------------------------------------
\* every required question of the survey, on whatever step, that is visible
\* under these answers has a non-empty answer
AllRequiredAnswered(ctx) ==
    \A i \in 1..Len(Questions) :
        (/\ Questions[i].required
         /\ Shown(QuestionConditions(Questions[i]), ctx) = B(TRUE))
        => ~IsEmptyValue(CtxGet(ctx, Questions[i].code))
\* the submit of worker p takes effect in this step
SubmitSucceeds(p) ==
    /\ req[p].op = "submit"
    /\ req[p].pc = "in_tx"
    /\ req'[p].result = "changed"
    /\ status' = "submitted"

\* C26: a submit that succeeds implies that every required question visible
\* under the stored answers, on every step of the survey, is answered
C26_SubmitChecksEveryStep ==
    [][\A p \in Procs : SubmitSucceeds(p) => AllRequiredAnswered(answers')]_vars

\* C26 witness: the application was submitted from step basic while the
\* required q_children_count of step extra has no answer
C26_SubmittedIncomplete ==
    /\ status = "submitted"
    /\ current_step = "basic"
    /\ \E p \in Procs : req[p].op = "submit" /\ req[p].result = "changed"
    /\ IsEmptyValue(CtxGet(answers, "q_children_count"))
    /\ validate_required("basic", answers) = L(<<>>)

\* ------------------------------------------------------------------------
\* Termination of eval_expr
\* ------------------------------------------------------------------------
\* C28: eval_expr returns a boolean for every expression tree and every
\* context, also for a single-key node with an unknown operator and for a
\* dict of several keys without a combinator
C28_EvalExprReturnsBoolean ==
    evaluation.fn = "eval_expr" => evaluation.out.k = "bool"

\* C28 witness: the node {"between": [1, 2]} and the node {"min": 1, "max": 2}
\* each ended in RecursionError
C28_UnknownOperatorRecurses ==
    /\ evaluation.fn = "eval_expr"
    /\ evaluation.arg[1] \in {Op("between", N(1), N(2)),
                              D(<<<<"min", N(1)>>, <<"max", N(2)>>>>)}
    /\ evaluation.out = Exc("RecursionError")
\* a call that gives no boolean ended in RecursionError or in TypeError
RaisesOnlyRecursionOrTypeError ==
    (evaluation.fn = "eval_expr" /\ evaluation.out.k # "bool")
    => evaluation.out \in {Exc("RecursionError"), Exc("TypeError")}

\* ------------------------------------------------------------------------
\* Answer patches with an invalid item
\* ------------------------------------------------------------------------
\* an item of the patch names a question the survey does not have, or carries
\* a value its question rejects
HasInvalidItem(items) ==
    \E i \in 1..Len(items) :
        \/ items[i].question_code \notin QuestionCodes
        \/ validate_answer_value(QuestionByCode(items[i].question_code),
                                 items[i].value).error # ""
\* the request of worker p is answered with the field errors and the
\* application, its answers, its history and its user are as they were
RefusedUnchanged(p) ==
    /\ req'[p].result = "errors"
    /\ req'[p].pc = "idle"
    /\ status' = status
    /\ answer_rows' = answer_rows
    /\ history' = history
    /\ account' = account
    /\ current_step' = current_step

\* C29 as stated: a patch with an invalid item or an unknown question code
\* returns the field errors and leaves the application and its answers
\* exactly as before
C29_PatchAllOrNothing ==
    [][\A p \in Procs, items \in AnswerPatches :
          (StartPatch(p, items) /\ status # NoApplication /\ HasInvalidItem(items))
          => RefusedUnchanged(p)]_vars

\* C29 amended: a patch with an invalid item or an unknown question code in
\* which no item sets q_agree to false (or to a value that normalizes to
\* false) returns the field errors and leaves the application and its
\* answers exactly as before
C29_PatchAllOrNothingUnlessDeclined ==
    [][\A p \in Procs, items \in AnswerPatches :
          (/\ StartPatch(p, items)
           /\ status # NoApplication
           /\ HasInvalidItem(items)
           /\ ~PatchDeclinesConsent(items))
          => RefusedUnchanged(p)]_vars

\* C29 witness: a patch with an invalid item was refused with the errors and
\* the stored answer is the one the application had
C29_Witness ==
    /\ status # NoApplication
    /\ \E p \in Procs : req[p].result = "errors"
    /\ answer_rows = << AnswerRow("q_who_fills", S("parent")) >>
    /\ calls = 1

============================================================================
